---- MODULE Spec2Model ----
(***************************************************************************)
(* A model of the universal price proxy (src/server.js): the number        *)
(* normalizer parsePriceNumber, the price arbitration chooseBestPrice, the  *)
(* candidate collectors of universalExtract, the lazily created browser     *)
(* (getBrowser / renderWithBrowser) and the /api/price request handler.     *)
(*                                                                          *)
(* Text is modelled as a sequence of one-character strings (Chars of a      *)
(* string).  A JavaScript value is a record tagged by t: "null" (null and   *)
(* undefined), "str" (s: text), "num" (an exact decimal: sign, integer      *)
(* digits without leading zeros, fraction digits without trailing zeros),   *)
(* "nan", "arr" (items) or "obj" (entries).  Decimals of at most 15         *)
(* significant digits are in one-to-one correspondence with the doubles     *)
(* parseFloat returns for them, so equality and order of these records are  *)
(* equality and order of the JavaScript numbers.                            *)
(***************************************************************************)
EXTENDS Integers, Sequences, FiniteSets

VARIABLES
    str,        \* parsePriceNumber: the argument
    num,        \* parsePriceNumber: the returned value
    ppc,        \* parsePriceNumber: "idle" | "call" | "done"
    candList,   \* chooseBestPrice: the candidate list passed in
    chosen,     \* chooseBestPrice: the returned value
    cpc,        \* chooseBestPrice: "idle" | "call" | "done"
    DEBUG,      \* line 16: process.env.DEBUG === "1"
    exDoc,      \* universalExtract: the document passed in
    exState,    \* universalExtract: the locals priceCands, image, strategies
    exStep,     \* universalExtract: the number of the next block, 0 when idle
    exOut,      \* universalExtract: the returned value
    exCalls,    \* universalExtract: the documents and results of the calls before
    USE_BROWSER,        \* line 17: process.env.USE_BROWSER === "1"
    browserSingleton,   \* line 498: the browser instance, 0 for null
    launches,           \* the number of calls of chromium.launch so far
    reqs                \* the locals of each /api/price request

parseVars == <<str, num, ppc>>
chooseVars == <<candList, chosen, cpc>>
extractVars == <<exDoc, exState, exStep, exOut, exCalls>>
serverVars == <<USE_BROWSER, browserSingleton, launches, reqs>>

vars == <<parseVars, chooseVars, DEBUG, extractVars, serverVars>>

(***************************************************************************)
(* JavaScript values                                                        *)
(***************************************************************************)
\* The characters of a string.
Chars(s) == [i \in 1..Len(s) |-> SubSeq(s, i, i)]

Null == [t |-> "null"]
NaN == [t |-> "nan"]
Str(s) == [t |-> "str", s |-> s]

Digits == {"0", "1", "2", "3", "4", "5", "6", "7", "8", "9"}
IsDigit(c) == c \in Digits

UpperCase == Chars("ABCDEFGHIJKLMNOPQRSTUVWXYZ")
LowerCase == Chars("abcdefghijklmnopqrstuvwxyz")
Letters == {UpperCase[k] : k \in 1..26} \cup {LowerCase[k] : k \in 1..26}

\* \w : [A-Za-z0-9_]
IsWordChar(c) == c \in Letters \cup Digits \cup {"_"}

RECURSIVE StripLeadingZeros(_)
StripLeadingZeros(ds) ==
    IF Len(ds) > 0 /\ ds[1] = "0" THEN StripLeadingZeros(Tail(ds)) ELSE ds

RECURSIVE StripTrailingZeros(_)
StripTrailingZeros(ds) ==
    IF Len(ds) > 0 /\ ds[Len(ds)] = "0"
    THEN StripTrailingZeros(SubSeq(ds, 1, Len(ds) - 1))
    ELSE ds

\* The number with sign neg, integer digits ip and fraction digits fp.
MkNum(neg, ip, fp) ==
    [t |-> "num", neg |-> neg, ip |-> StripLeadingZeros(ip), fp |-> StripTrailingZeros(fp)]

IsZero(n) == n.ip = <<>> /\ n.fp = <<>>

\* Number.isFinite(num): a number that is not NaN (no text of the model's
\* length overflows to Infinity).
IsFinite(n) == n.t = "num"

\* num > 0
IsPositive(n) == n.t = "num" /\ ~n.neg /\ ~IsZero(n)

\* String(n) for a number n.
NumToString(n) ==
    (IF n.neg /\ ~IsZero(n) THEN <<"-">> ELSE <<>>)
    \o (IF n.ip = <<>> THEN <<"0">> ELSE n.ip)
    \o (IF n.fp = <<>> THEN <<>> ELSE <<".">> \o n.fp)

Arr(items) == [t |-> "arr", items |-> items]
Obj(entries) == [t |-> "obj", entries |-> entries]
Entry(k, v) == [k |-> k, v |-> v]
Text(s) == Str(Chars(s))

\* typeof v === "object" for a value that is not null
IsObject(v) == v.t \in {"arr", "obj"}

\* v[name] and v?.[name]; undefined is modelled as null.
Get(v, name) ==
    IF v.t = "obj" /\ \E i \in 1..Len(v.entries) : v.entries[i].k = name
    THEN v.entries[CHOOSE i \in 1..Len(v.entries) :
                       /\ v.entries[i].k = name
                       /\ \A j \in (i + 1)..Len(v.entries) : v.entries[j].k # name].v
    ELSE Null

\* String(v): an array is its items joined by commas, a null item being
\* empty; an object is "[object Object]".
RECURSIVE StringOf(_), JoinItems(_, _)
StringOf(v) ==
    CASE v.t = "str" -> v.s
      [] v.t = "num" -> NumToString(v)
      [] v.t = "nan" -> Chars("NaN")
      [] v.t = "arr" -> JoinItems(v.items, 1)
      [] v.t = "obj" -> Chars("[object Object]")
      [] OTHER -> Chars("null")

JoinItems(items, i) ==
    IF i > Len(items) THEN <<>>
    ELSE (IF items[i].t = "null" THEN <<>> ELSE StringOf(items[i]))
         \o (IF i < Len(items) THEN <<",">> ELSE <<>>)
         \o JoinItems(items, i + 1)

\* !v : the falsy values are null, undefined, "", 0 and NaN.
Falsy(v) ==
    \/ v.t = "null"
    \/ v.t = "nan"
    \/ v.t = "str" /\ v.s = <<>>
    \/ v.t = "num" /\ IsZero(v)

(***************************************************************************)
(* String helpers                                                           *)
(***************************************************************************)
\* s.toLowerCase() for text of ASCII letters, digits and punctuation.
toLowerCase(s) ==
    <<>> \o [i \in 1..Len(s) |->
                IF \E k \in 1..26 : UpperCase[k] = s[i]
                THEN LowerCase[CHOOSE k \in 1..26 : UpperCase[k] = s[i]]
                ELSE s[i]]

\* s.includes(k) for a text k
IncludesText(s, k) ==
    \/ k = <<>>
    \/ \E i \in 0..(Len(s) - Len(k)) : s[i + 1] = k[1] /\ SubSeq(s, i + 1, i + Len(k)) = k

Includes(s, c) == \E i \in 1..Len(s) : s[i] = c

\* The least number of a non-empty set of numbers.
Least(S) == CHOOSE i \in S : \A j \in S : i <= j

\* lastIndexOf, 1-based; 0 when c does not occur.
LastIndexOf(s, c) ==
    IF Includes(s, c)
    THEN CHOOSE i \in 1..Len(s) : s[i] = c /\ \A j \in (i + 1)..Len(s) : s[j] # c
    ELSE 0

RemoveAll(s, c) == SelectSeq(s, LAMBDA x : x # c)

\* s.replace(c, d) with a string pattern: only the first occurrence.
RECURSIVE ReplaceFirst(_, _, _)
ReplaceFirst(s, c, d) ==
    IF s = <<>> THEN <<>>
    ELSE IF s[1] = c THEN <<d>> \o Tail(s)
    ELSE <<s[1]>> \o ReplaceFirst(Tail(s), c, d)

\* s.replace(k, r) for a text k: the first occurrence only.
RECURSIVE ReplaceFirstText(_, _, _)
ReplaceFirstText(s, k, r) ==
    IF Len(s) < Len(k) THEN s
    ELSE IF SubSeq(s, 1, Len(k)) = k THEN r \o SubSeq(s, Len(k) + 1, Len(s))
    ELSE <<s[1]>> \o ReplaceFirstText(Tail(s), k, r)

\* s.split(c)
RECURSIVE Split(_, _)
Split(s, c) ==
    IF ~Includes(s, c) THEN <<s>>
    ELSE LET i == CHOOSE k \in 1..Len(s) : s[k] = c /\ \A j \in 1..(k - 1) : s[j] # c
         IN <<SubSeq(s, 1, i - 1)>> \o Split(SubSeq(s, i + 1, Len(s)), c)

\* The length of the run of digits of s that starts at position i.
RECURSIVE DigitRun(_, _)
DigitRun(s, i) ==
    IF i <= Len(s) /\ IsDigit(s[i]) THEN 1 + DigitRun(s, i + 1) ELSE 0

\* parseFloat on text without whitespace, exponent letters or "Infinity":
\* the longest prefix  [+-] digits [. digits]  |  [+-] . digits ; NaN if none.
parseFloat(s) ==
    LET signed == Len(s) >= 1 /\ s[1] \in {"-", "+"}
        neg == Len(s) >= 1 /\ s[1] = "-"
        st == IF signed THEN 2 ELSE 1
        n == DigitRun(s, st)
        hasDot == st + n <= Len(s) /\ s[st + n] = "."
        k == IF hasDot THEN DigitRun(s, st + n + 1) ELSE 0
    IN  IF n = 0 /\ k = 0 THEN NaN
        ELSE MkNum(neg, SubSeq(s, st, st + n - 1), SubSeq(s, st + n + 1, st + n + k))

(***************************************************************************)
(* parsePriceNumber                                                         *)
(***************************************************************************)
\* s.replace(/,-\b/g, ",00"): "-" is not a word character, so the boundary
\* holds exactly when a word character follows the dash.
RECURSIVE ReplaceCommaDash(_)
ReplaceCommaDash(s) ==
    IF s = <<>> THEN <<>>
    ELSE IF Len(s) >= 3 /\ s[1] = "," /\ s[2] = "-" /\ IsWordChar(s[3])
    THEN Chars(",00") \o ReplaceCommaDash(SubSeq(s, 3, Len(s)))
    ELSE <<s[1]>> \o ReplaceCommaDash(Tail(s))

\* s.replace(/\s+/g, "").replace(/[^\d,.\-]/g, "")
Cleaned(s) == SelectSeq(s, LAMBDA c : IsDigit(c) \/ c \in {",", ".", "-"})

\* Position i of s matches /\.(?=\d{3}\b)/ : a period followed by exactly
\* three digits that end the string or are followed by a non-word character.
DotBeforeThreeDigits(s, i) ==
    /\ s[i] = "."
    /\ i + 3 <= Len(s)
    /\ \A j \in (i + 1)..(i + 3) : IsDigit(s[j])
    /\ (i + 3 = Len(s) \/ ~IsWordChar(s[i + 4]))

\* s.replace(/\.(?=\d{3}\b)/g, "")
RECURSIVE RemoveGroupingDotsFrom(_, _)
RemoveGroupingDotsFrom(s, i) ==
    IF i > Len(s) THEN <<>>
    ELSE (IF DotBeforeThreeDigits(s, i) THEN <<>> ELSE <<s[i]>>)
         \o RemoveGroupingDotsFrom(s, i + 1)

RemoveGroupingDots(s) == RemoveGroupingDotsFrom(s, 1)

\* A variant of Normalized that takes every comma for a decimal point.
Normalized_CommaAlwaysDecimal(cleaned) ==
    IF Includes(cleaned, ",")
    THEN ReplaceFirst(cleaned, ",", ".")
    ELSE cleaned

\* A variant of Normalized with the comparison of the last positions inverted.
Normalized_InvertedOrder(cleaned) ==
    IF Includes(cleaned, ",") /\ Includes(cleaned, ".")
    THEN IF LastIndexOf(cleaned, ",") < LastIndexOf(cleaned, ".")
         THEN ReplaceFirst(RemoveGroupingDots(cleaned), ",", ".")
         ELSE RemoveAll(cleaned, ",")
    ELSE IF Includes(cleaned, ",")
    THEN LET parts == Split(cleaned, ",")
         IN  IF Len(parts) = 2 /\ Len(parts[2]) <= 2
             THEN ReplaceFirst(cleaned, ",", ".")
             ELSE RemoveAll(cleaned, ",")
    ELSE cleaned

\* A variant of Normalized that takes a single comma for the decimal point
\* whatever follows it.
Normalized_AnyFractionLength(cleaned) ==
    IF Includes(cleaned, ",") /\ Includes(cleaned, ".")
    THEN IF LastIndexOf(cleaned, ",") > LastIndexOf(cleaned, ".")
         THEN ReplaceFirst(RemoveGroupingDots(cleaned), ",", ".")
         ELSE RemoveAll(cleaned, ",")
    ELSE IF Includes(cleaned, ",")
    THEN IF Len(Split(cleaned, ",")) = 2
         THEN ReplaceFirst(cleaned, ",", ".")
         ELSE RemoveAll(cleaned, ",")
    ELSE cleaned

\* Lines 43-58: the separator disambiguation of the cleaned text.
Normalized(cleaned) ==
    IF Includes(cleaned, ",") /\ Includes(cleaned, ".")
    THEN IF LastIndexOf(cleaned, ",") > LastIndexOf(cleaned, ".")
         THEN ReplaceFirst(RemoveGroupingDots(cleaned), ",", ".")
         ELSE RemoveAll(cleaned, ",")
    ELSE IF Includes(cleaned, ",")
    THEN LET parts == Split(cleaned, ",")
         IN  IF Len(parts) = 2 /\ Len(parts[2]) <= 2
             THEN ReplaceFirst(cleaned, ",", ".")
             ELSE RemoveAll(cleaned, ",")
    ELSE cleaned

\* A variant of PriceOrNull that also returns zero.
PriceOrNull_NonNegative(n) == IF IsFinite(n) /\ ~n.neg THEN n ELSE Null

\* Line 60: Number.isFinite(num) && num > 0 ? num : null
PriceOrNull(n) == IF IsFinite(n) /\ IsPositive(n) THEN n ELSE Null

\* Lines 37-61
parsePriceNumber(v) ==
    IF Falsy(v) /\ ~(v.t = "num" /\ IsZero(v)) THEN Null
    ELSE PriceOrNull(parseFloat(Normalized(Cleaned(ReplaceCommaDash(StringOf(v))))))

(***************************************************************************)
(* chooseBestPrice                                                          *)
(***************************************************************************)
VAT_POSITIVE ==
    { Chars("inkl. mwst"),
      Chars("inkl mwst"),
      Chars("inkl. steuer"),
      Chars("inkl steuer"),
      Chars("inklusive mwst"),
      Chars("inklusive steuer"),
      Chars("brutto"),
      Chars("vat included"),
      Chars("incl. vat"),
      Chars("ttc") }

VAT_NEGATIVE ==
    { Chars("exkl. mwst"),
      Chars("exkl mwst"),
      Chars("exkl. steuer"),
      Chars("exkl steuer"),
      Chars("ohne mwst"),
      Chars("ohne steuer"),
      Chars("netto"),
      Chars("ex vat"),
      Chars("ht") }

HARD_MIN == 10
HARD_MAX == 100000

DigitSeq == Chars("0123456789")
DigitValue(c) == (CHOOSE i \in 1..10 : DigitSeq[i] = c) - 1

\* The number n >= 0 of the source text as a value.
RECURSIVE NatDigits(_)
NatDigits(n) ==
    IF n = 0 THEN <<>> ELSE NatDigits(n \div 10) \o <<DigitSeq[(n % 10) + 1]>>

NumOfNat(n) == MkNum(FALSE, NatDigits(n), <<>>)

\* The sign of a - b for digit strings read as fractions 0.a and 0.b.
RECURSIVE CompareFraction(_, _)
CompareFraction(a, b) ==
    IF a = <<>> /\ b = <<>> THEN 0
    ELSE LET x == IF a = <<>> THEN 0 ELSE DigitValue(a[1])
             y == IF b = <<>> THEN 0 ELSE DigitValue(b[1])
         IN  IF x # y THEN (IF x < y THEN -1 ELSE 1)
             ELSE CompareFraction(IF a = <<>> THEN a ELSE Tail(a),
                                  IF b = <<>> THEN b ELSE Tail(b))

\* The sign of a - b for two numbers that are not negative.
CompareMagnitude(a, b) ==
    IF Len(a.ip) # Len(b.ip) THEN (IF Len(a.ip) < Len(b.ip) THEN -1 ELSE 1)
    ELSE LET c == CompareFraction(a.ip, b.ip)
         IN  IF c # 0 THEN c ELSE CompareFraction(a.fp, b.fp)

\* The sign of a - b.
NumCompare(a, b) ==
    LET an == a.neg /\ ~IsZero(a)
        bn == b.neg /\ ~IsZero(b)
    IN  IF an /\ ~bn THEN -1
        ELSE IF ~an /\ bn THEN 1
        ELSE IF an THEN CompareMagnitude(b, a)
        ELSE CompareMagnitude(a, b)

\* A variant of InRange whose lower bound is missing.
InRange_NoLowerBound(c) ==
    NumCompare(c.value, NumOfNat(HARD_MAX)) <= 0

\* Line 216: c.value >= HARD_MIN && c.value <= HARD_MAX
InRange(c) ==
    /\ NumCompare(c.value, NumOfNat(HARD_MIN)) >= 0
    /\ NumCompare(c.value, NumOfNat(HARD_MAX)) <= 0

\* Lines 216-217: the candidates in the band, or all when there is none.
RangeFiltered(cands) ==
    LET inRange == SelectSeq(cands, InRange)
    IN  IF Len(inRange) > 0 THEN inRange ELSE cands

\* Lines 224-225: the tax score of a context in lower case.
ScoreOf(ctx) ==
    (IF \E k \in VAT_POSITIVE : IncludesText(ctx, k) THEN 3 ELSE 0)
    + (IF \E k \in VAT_NEGATIVE : IncludesText(ctx, k) THEN -4 ELSE 0)

\* Lines 221-225: the tax score of a context.
VatScore(context) == ScoreOf(toLowerCase(context))

\* Lines 220-228
Scored(list) ==
    [i \in 1..Len(list) |->
        [value |-> list[i].value, source |-> list[i].source,
         context |-> list[i].context, score |-> VatScore(list[i].context)]]

\* A variant of Pool that keeps the net-price candidates in every case.
Pool_NoPartition(scored) == scored

\* Lines 231-232: the candidates without a net-price flag, or all.
Pool(scored) ==
    LET nonNetto == SelectSeq(scored, LAMBDA c : c.score >= 0)
    IN  IF Len(nonNetto) > 0 THEN nonNetto ELSE scored

\* Lines 235-238: the keys of freq are the values as property names.
FreqKeys(pool) == {NumToString(pool[i].value) : i \in 1..Len(pool)}
Freq(pool, key) == Cardinality({i \in 1..Len(pool) : NumToString(pool[i].value) = key})

\* A variant of KeyValue that reads the key with parseInt.
KeyValue_ParseInt(key) ==
    LET n == parseFloat(key)
    IN  IF n.t = "num" THEN MkNum(n.neg, n.ip, <<>>) ELSE n

\* Lines 242 and 245: parseFloat of a key of freq.
KeyValue(key) == parseFloat(key)

\* A variant of ModeOrder that breaks ties towards the smaller value.
ModeOrder_SmallestOnTie(ka, fa, kb, fb) ==
    IF fb # fa THEN fb - fa
    ELSE NumCompare(KeyValue(ka), KeyValue(kb))

\* A variant of ModeOrder without the tie-break: entries of equal frequency
\* compare as equal.
ModeOrder_FrequencyOnly(ka, fa, kb, fb) == fb - fa

\* Lines 239-243: the comparator of the sort, for the entries [ka, fa] and
\* [kb, fb]; negative when the first sorts before the second.
ModeOrder(ka, fa, kb, fb) ==
    IF fb # fa THEN fb - fa
    ELSE NumCompare(KeyValue(kb), KeyValue(ka))

\* Lines 236-238: the keys of freq in the order of their first assignment.
RECURSIVE InsertionKeys(_, _)
InsertionKeys(pool, i) ==
    IF i > Len(pool) THEN <<>>
    ELSE (IF \E j \in 1..(i - 1) : NumToString(pool[j].value) = NumToString(pool[i].value)
          THEN <<>>
          ELSE <<NumToString(pool[i].value)>>)
         \o InsertionKeys(pool, i + 1)

\* A property name that is an array index: a canonical decimal integer
\* below 2^32 - 1.
IsIndexKey(key) ==
    /\ key # <<>>
    /\ \A i \in 1..Len(key) : IsDigit(key[i])
    /\ Len(key) = 1 \/ key[1] # "0"
    /\ NumCompare(parseFloat(key), MkNum(FALSE, Chars("4294967295"), <<>>)) < 0

\* The keys of the set in ascending numeric order.
RECURSIVE Ascending(_)
Ascending(keys) ==
    IF keys = {} THEN <<>>
    ELSE LET least == CHOOSE k \in keys :
                          \A other \in keys :
                              NumCompare(parseFloat(k), parseFloat(other)) <= 0
         IN  <<least>> \o Ascending(keys \ {least})

\* Line 239: the keys in the order of Object.entries(freq): the array
\* indices ascending, then the other names in the order of their creation.
EntryKeys(pool) ==
    LET keys == InsertionKeys(pool, 1)
    IN  Ascending({keys[i] : i \in {j \in 1..Len(keys) : IsIndexKey(keys[j])}})
        \o SelectSeq(keys, LAMBDA k : ~IsIndexKey(k))

\* Line 239: Object.entries(freq), the pairs of a key and its count.
Entries(pool) ==
    LET keys == EntryKeys(pool)
    IN  [i \in 1..Len(keys) |-> <<keys[i], Freq(pool, keys[i])>>]

\* One step of the stable sort of line 239: the entry is moved in front of
\* the entries of sorted that the comparator puts after it.
RECURSIVE SortInsert(_, _)
SortInsert(sorted, entry) ==
    IF sorted = <<>> THEN <<entry>>
    ELSE LET last == sorted[Len(sorted)]
         IN  IF ModeOrder(last[1], last[2], entry[1], entry[2]) > 0
             THEN Append(SortInsert(SubSeq(sorted, 1, Len(sorted) - 1), entry), last)
             ELSE Append(sorted, entry)

\* Lines 239-243: the first n entries, sorted.
RECURSIVE SortedByMode(_, _)
SortedByMode(entries, n) ==
    IF n = 0 THEN <<>>
    ELSE SortInsert(SortedByMode(entries, n - 1), entries[n])

EntriesByMode(entries) == SortedByMode(entries, Len(entries))

\* Lines 239-245: the key of the first entry of the sorted list.
FirstByMode(pool) == EntriesByMode(Entries(pool))[1][1]

chooseBestPrice(cands) ==
    IF Len(cands) = 0 THEN Null
    ELSE KeyValue(FirstByMode(Pool(Scored(RangeFiltered(cands)))))

(***************************************************************************)
(* URLs                                                                     *)
(***************************************************************************)
StartsWith(s, prefix) ==
    Len(s) >= Len(prefix) /\ SubSeq(s, 1, Len(prefix)) = prefix

\* The first position of c in s at or after position i; Len(s) + 1 if none.
RECURSIVE IndexFrom(_, _, _)
IndexFrom(s, c, i) ==
    IF i > Len(s) \/ s[i] = c THEN i ELSE IndexFrom(s, c, i + 1)

\* The scheme of a reference with the colon ("https:"), or <<>> if it has
\* none: letters followed by a colon before any slash.
SchemeOf(s) ==
    LET i == IndexFrom(s, ":", 1)
    IN  IF /\ i <= Len(s)
           /\ i > 1
           /\ \A j \in 1..(i - 1) : s[j] \in Letters
        THEN SubSeq(s, 1, i) ELSE <<>>

\* The host of a text that starts with "//": the characters up to the next
\* slash.
HostAfterSlashes(s) == SubSeq(s, 3, IndexFrom(s, "/", 3) - 1)

ValidHost(h) == h # <<>> /\ ~Includes(h, " ")

\* scheme://host of an http(s) URL
OriginOf(url) == SubSeq(url, 1, IndexFrom(url, "/", Len(SchemeOf(url)) + 3) - 1)

\* An empty path of an http(s) URL is serialized as "/".
WithPath(url) ==
    IF IndexFrom(url, "/", Len(SchemeOf(url)) + 3) > Len(url)
    THEN url \o <<"/">> ELSE url

\* The URL up to and including the last slash of its path.
DirectoryOf(url) ==
    LET u == WithPath(url) IN SubSeq(u, 1, LastIndexOf(u, "/"))

\* new URL(ref, base).toString() for a valid http(s) base and a reference
\* without "..", query or fragment and with a lower-case host; null when the
\* constructor throws (an http(s) or protocol-relative reference without a
\* valid host).
Resolved(scheme, ref, base) ==
    IF scheme \in {Chars("http:"), Chars("https:")}
    THEN IF /\ StartsWith(SubSeq(ref, Len(scheme) + 1, Len(ref)), Chars("//"))
            /\ ValidHost(HostAfterSlashes(SubSeq(ref, Len(scheme) + 1, Len(ref))))
         THEN Str(WithPath(scheme \o SubSeq(ref, Len(scheme) + 1, Len(ref))))
         ELSE Null
    ELSE IF scheme # <<>> THEN Str(ref)
    ELSE IF StartsWith(ref, Chars("//"))
    THEN IF ValidHost(HostAfterSlashes(ref))
         THEN Str(WithPath(SchemeOf(base) \o ref))
         ELSE Null
    ELSE IF StartsWith(ref, <<"/">>) THEN Str(OriginOf(base) \o ref)
    ELSE Str(DirectoryOf(base) \o ref)

ResolveUrl(ref, base) == Resolved(toLowerCase(SchemeOf(ref)), ref, base)

\* Lines 82-94
Absolute(maybeUrl, absolute) ==
    IF absolute # Null
    THEN (IF StartsWith(absolute.s, Chars("http")) THEN absolute ELSE Null)
    ELSE IF maybeUrl.t = "str" /\ StartsWith(maybeUrl.s, Chars("//"))
    THEN Str(Chars("https:") \o maybeUrl.s)
    ELSE Null

absolutize(maybeUrl, base) ==
    IF Falsy(maybeUrl) THEN Null
    ELSE Absolute(maybeUrl, ResolveUrl(StringOf(maybeUrl), base))

DenyWords ==
    {Chars("sprite"), Chars("icon"), Chars("logo"), Chars("placeholder"), Chars("loading")}

\* /sprite|icon|logo|placeholder|loading/i.test(u)
DenyListed(u) == \E w \in DenyWords : IncludesText(toLowerCase(u), w)

(***************************************************************************)
(* The embedded-script-blob collector                                       *)
(***************************************************************************)
PriceCand(value, source, context) ==
    [value |-> value, source |-> source, context |-> context]

\* The characters of a property name.
Spelling(name) == Chars(name)

priceKeys ==
    { Chars("price"),
      Chars("currentPrice"),
      Chars("salesPrice"),
      Chars("salePrice"),
      Chars("finalPrice"),
      Chars("priceValue"),
      Chars("unitPrice"),
      Chars("lowPrice"),
      Chars("offerPrice"),
      Chars("amount"),
      Chars("value") }

imageKeys ==
    { Chars("image"),
      Chars("imageUrl"),
      Chars("imageURL"),
      Chars("img"),
      Chars("thumbnail"),
      Chars("thumbnailUrl"),
      Chars("primaryImage"),
      Chars("mediaUrl"),
      Chars("src"),
      Chars("url") }

\* Lines 272 and 277: some key of the set occurs in the lower-cased name.
KeyMatches(keys, name) ==
    \E k \in keys : IncludesText(toLowerCase(Spelling(name)), toLowerCase(k))

\* Line 274: if (n)
JsonPriceAccepts(n) == ~Falsy(n)

\* What a collector adds to acc: price candidates and image addresses.
Found(priceCands, images) == [priceCands |-> priceCands, images |-> images]

Both(a, b) == Found(a.priceCands \o b.priceCands, a.images \o b.images)

\* Lines 272-275: the candidate one entry adds to acc.priceCands.
JsonCand(n, k) ==
    IF JsonPriceAccepts(n) THEN <<PriceCand(n, "json:" \o k, <<>>)>> ELSE <<>>

EntryPrice(k, v) ==
    IF KeyMatches(priceKeys, k) THEN JsonCand(parsePriceNumber(v), k) ELSE <<>>

\* Lines 277-283: the images one entry adds to acc.images.
EntryImages(k, v) ==
    IF ~KeyMatches(imageKeys, k) THEN <<>>
    ELSE IF v.t = "str" THEN <<v>>
    ELSE IF IsObject(v)
    THEN (IF ~Falsy(Get(v, "url")) THEN <<Get(v, "url")>> ELSE <<>>)
         \o (IF ~Falsy(Get(v, "src")) THEN <<Get(v, "src")>> ELSE <<>>)
    ELSE <<>>

\* Lines 251-287: what collectFromJSON(obj, acc) adds to acc, in order.
RECURSIVE collectFromJSON(_), CollectItems(_, _), CollectEntries(_, _)
collectFromJSON(obj) ==
    IF Falsy(obj) \/ ~IsObject(obj) THEN Found(<<>>, <<>>)
    ELSE IF obj.t = "arr" THEN CollectItems(obj.items, 1)
    ELSE CollectEntries(obj.entries, 1)

CollectItems(items, i) ==
    IF i > Len(items) THEN Found(<<>>, <<>>)
    ELSE Both(collectFromJSON(items[i]), CollectItems(items, i + 1))

CollectEntries(entries, i) ==
    IF i > Len(entries) THEN Found(<<>>, <<>>)
    ELSE LET k == entries[i].k
             v == entries[i].v
             own == Found(EntryPrice(k, v), EntryImages(k, v))
             below == IF IsObject(v) THEN collectFromJSON(v) ELSE Found(<<>>, <<>>)
         IN  Both(Both(own, below), CollectEntries(entries, i + 1))

\* What JSON.parse of a script text gives when it throws.
Malformed == [t |-> "malformed"]

\* A script element: its type attribute (null if it has none), the length
\* of its text, the value JSON.parse gives for the text (or Malformed), and,
\* for the regular expressions that read a malformed text, the quoted
\* "key": "value" pairs and the image URLs in the text, in text order.
Script(type, length, parsed, pairs, urls) ==
    [type |-> type, length |-> length, parsed |-> parsed, pairs |-> pairs, urls |-> urls]

\* Line 290: script:not([type]), script[type="application/json"],
\* script[type*="ld+json"]
BlobSelected(script) ==
    \/ script.type = Null
    \/ script.type = Text("application/json")
    \/ script.type # Null /\ IncludesText(script.type.s, Chars("ld+json"))

\* Lines 298-306: the keys of the regular expressions, in order.
priceRegexes ==
    << "price", "currentPrice", "salesPrice", "finalPrice", "lowPrice", "amount", "value" >>

\* Line 311: if (n)
RegexPriceAccepts(n) == ~Falsy(n)

\* Lines 310-311: the candidate of one match.
RegexCand(n) ==
    IF RegexPriceAccepts(n) THEN <<PriceCand(n, "jsonblob:regex", <<>>)>> ELSE <<>>

\* Lines 309-312: the candidates of the matches of one regular expression
\* (flags gi) among the pairs from position i on.
RECURSIVE RegexPrices(_, _, _)
RegexPrices(key, pairs, i) ==
    IF i > Len(pairs) THEN <<>>
    ELSE (IF /\ toLowerCase(Spelling(pairs[i].k)) = toLowerCase(Spelling(key))
             /\ pairs[i].v.t = "str" /\ pairs[i].v.s # <<>>
          THEN RegexCand(parsePriceNumber(pairs[i].v))
          ELSE <<>>)
         \o RegexPrices(key, pairs, i + 1)

\* Lines 307-313: the regular expressions from r on.
RECURSIVE AllRegexPrices(_, _)
AllRegexPrices(pairs, r) ==
    IF r > Len(priceRegexes) THEN <<>>
    ELSE RegexPrices(priceRegexes[r], pairs, 1) \o AllRegexPrices(pairs, r + 1)

\* Lines 291-321: what one script element adds to acc.
BlobScript(script) ==
    IF ~BlobSelected(script) \/ script.length < 40 THEN Found(<<>>, <<>>)
    ELSE IF script.parsed = Malformed
    THEN Found(AllRegexPrices(script.pairs, 1),
               [i \in 1..Len(script.urls) |-> Str(script.urls[i])])
    ELSE collectFromJSON(script.parsed)

RECURSIVE BlobScripts(_, _)
BlobScripts(scripts, i) ==
    IF i > Len(scripts) THEN Found(<<>>, <<>>)
    ELSE Both(BlobScript(scripts[i]), BlobScripts(scripts, i + 1))

\* Lines 324-327
AcceptedImages(images, pageUrl) ==
    LET abs == [i \in 1..Len(images) |-> absolutize(images[i], pageUrl)]
    IN  SelectSeq(abs, LAMBDA u : u # Null /\ ~DenyListed(u.s))

\* Lines 324-327
FilterImages(acc, pageUrl) == Found(acc.priceCands, AcceptedImages(acc.images, pageUrl))

\* Lines 289-328, for the script elements of the document
extractFromInlineJSON(scripts, pageUrl, acc) ==
    FilterImages(Both(acc, BlobScripts(scripts, 1)), pageUrl)

(***************************************************************************)
(* universalExtract: the collectors.  The state of a call is the record     *)
(* [priceCands, image, strategies] of its three local variables.            *)
(***************************************************************************)
\* A variant of PushAccepts that only asks for a number.
PushAccepts_AnyNumber(n) == TRUE

\* Line 339: typeof n === "number" && Number.isFinite(n) && n > 0
PushAccepts(n) == n.t \in {"num", "nan"} /\ IsFinite(n) /\ IsPositive(n)

\* Lines 338-342
Push(priceCands, n, source, context) ==
    IF PushAccepts(n) THEN Append(priceCands, PriceCand(n, source, context))
    ELSE priceCands

\* a || b
Or(a, b) == IF ~Falsy(a) THEN a ELSE b

\* Lines 362, 363 and 365: if (v) push(parsePriceNumber(v), source)
PushIf(priceCands, v, source) ==
    IF ~Falsy(v) THEN Push(priceCands, parsePriceNumber(v), source, <<>>) ELSE priceCands

\* Lines 361-364
RECURSIVE OfferPrices(_, _, _)
OfferPrices(priceCands, offerList, i) ==
    IF i > Len(offerList) THEN priceCands
    ELSE OfferPrices(PushIf(PushIf(priceCands, Get(offerList[i], "price"),
                                   "jsonld:offers.price"),
                            Get(offerList[i], "lowPrice"), "jsonld:offers.lowPrice"),
                     offerList, i + 1)

\* Lines 371 and 400: an image that was found is set and its strategy noted.
WithImage(st, image, strategy) ==
    IF ~Falsy(image)
    THEN [st EXCEPT !.image = image, !.strategies = Append(@, strategy)]
    ELSE st

\* Line 368: Array.isArray(node.image) ? node.image[0] : node.image
ImageCandidate(img) ==
    IF img.t = "arr" THEN (IF Len(img.items) > 0 THEN img.items[1] ELSE Null) ELSE img

\* Line 369: typeof imgCand === "object" ? imgCand?.url : imgCand
ImageUrl(imgCand) ==
    IF imgCand.t \in {"null", "arr", "obj"} THEN Get(imgCand, "url") ELSE imgCand

\* Lines 367-372: the image of a node, taken only while none is set.
NodeImage(st, node, pageUrl) ==
    IF ~Falsy(st.image) THEN st
    ELSE WithImage(st, absolutize(ImageUrl(ImageCandidate(Get(node, "image"))), pageUrl),
                   "JSON-LD:image")

\* Lines 350 and 359: Array.isArray(v) ? v : [v]
ListOf(v) == IF v.t = "arr" THEN v.items ELSE <<v>>

\* Lines 357-373: one node of a graph.
LdNode(st, node, pageUrl) ==
    IF Get(node, "@type") \in {Text("Product"), Text("Offer")}
    THEN NodeImage(
             [st EXCEPT !.priceCands =
                 PushIf(OfferPrices(@, ListOf(Or(Or(Get(node, "offers"), Get(node, "Offer")),
                                                 Arr(<<>>))), 1),
                        Get(node, "price"), "jsonld:price")],
             node, pageUrl)
    ELSE st

\* Marks the place where the loops of lines 352-375 throw a TypeError: a
\* null node, or an "@graph" that cannot be iterated.
Throws == [t |-> "throws"]

\* Lines 354-356: the nodes of an "@graph" as the inner loop meets them.
GraphNodes(graph) ==
    IF graph.t = "arr"
    THEN [i \in 1..Len(graph.items) |->
             IF graph.items[i] = Null THEN Throws ELSE graph.items[i]]
    ELSE IF graph.t = "str" THEN <<>>
    ELSE <<Throws>>

\* Lines 353-356: the nodes the loops visit for one entry of list, in order.
NodesOf(obj) ==
    IF Falsy(obj) \/ ~IsObject(obj) THEN <<>>
    ELSE IF Falsy(Get(obj, "@graph")) THEN <<obj>>
    ELSE GraphNodes(Get(obj, "@graph"))

RECURSIVE NodesOfList(_, _)
NodesOfList(list, i) ==
    IF i > Len(list) THEN <<>> ELSE NodesOf(list[i]) \o NodesOfList(list, i + 1)

\* Lines 352-379: the visits in order; a throw ends the script in the catch
\* of line 377 with what was collected so far, the end of the loops adds the
\* strategy (line 376).
RECURSIVE LdVisit(_, _, _, _)
LdVisit(st, nodes, i, pageUrl) ==
    IF i > Len(nodes) THEN [st EXCEPT !.strategies = Append(@, "JSON-LD")]
    ELSE IF nodes[i] = Throws THEN st
    ELSE LdVisit(LdNode(st, nodes[i], pageUrl), nodes, i + 1, pageUrl)

\* Lines 345-380: one script element.
LdScript(st, script, pageUrl) ==
    IF script.type # Text("application/ld+json") THEN st
    ELSE IF script.length = 0 \/ script.parsed = Malformed THEN st
    ELSE LdVisit(st, NodesOfList(ListOf(script.parsed), 1), 1, pageUrl)

\* A variant of LdScripts in which a script that fails ends the block.
RECURSIVE LdScripts_StopAtFailure(_, _, _, _)
LdScripts_StopAtFailure(st, scripts, i, pageUrl) ==
    IF i > Len(scripts) THEN st
    ELSE IF /\ scripts[i].type = Text("application/ld+json")
            /\ \/ scripts[i].parsed = Malformed
               \/ \E n \in 1..Len(NodesOfList(ListOf(scripts[i].parsed), 1)) :
                      NodesOfList(ListOf(scripts[i].parsed), 1)[n] = Throws
    THEN LdScript(st, scripts[i], pageUrl)
    ELSE LdScripts_StopAtFailure(LdScript(st, scripts[i], pageUrl), scripts, i + 1, pageUrl)

RECURSIVE LdScripts(_, _, _, _)
LdScripts(st, scripts, i, pageUrl) ==
    IF i > Len(scripts) THEN st
    ELSE LdScripts(LdScript(st, scripts[i], pageUrl), scripts, i + 1, pageUrl)

\* Lines 344-380
CollectJsonLd(st, doc, pageUrl) == LdScripts(st, doc.scripts, 1, pageUrl)

\* Lines 383-387: doc.itemprop is the first [itemprop="price"] element
\* (null if there is none) with its content attribute and its text.
CollectMicrodata(st, doc) ==
    LET val == IF doc.itemprop = Null THEN Text("")
               ELSE Or(doc.itemprop.content, doc.itemprop.text)
    IN  [st EXCEPT !.priceCands = Push(@, parsePriceNumber(val), "microdata:price", <<>>)]

\* Lines 391-396: doc.meta holds the content of the first meta element of
\* each property (null if there is none).
CollectOgPrice(st, doc) ==
    LET ogPrice == Or(Or(Or(doc.meta["product:price:amount"], doc.meta["og:price:amount"]),
                         doc.meta["twitter:data1"]), Null)
    IN  [st EXCEPT !.priceCands = Push(@, parsePriceNumber(ogPrice), "og/twitter:price", <<>>)]

\* Lines 406-413
dataSelectors ==
    << "[data-price]", "[data-price-amount]", "[data-product-price]",
       "[data-test-id*='price']", "[data-testid*='price']", "[data-cy*='price']" >>

\* Lines 414-423: doc.data gives, for each selector, its first element (null
\* if there is none) with its three attributes and its text.
RECURSIVE CollectDataFrom(_, _)
CollectDataFrom(doc, i) ==
    IF i > Len(dataSelectors) THEN <<>>
    ELSE LET sel == dataSelectors[i]
             el == doc.data[sel]
             val == Or(Or(Or(el.dataPrice, el.dataPriceAmount), el.dataProductPrice), el.text)
         IN  (IF el = Null THEN <<>>
              ELSE Push(<<>>, parsePriceNumber(val), "data:" \o sel, <<>>))
             \o CollectDataFrom(doc, i + 1)

\* A variant of CollectData that is skipped once a candidate was found.
CollectData_UnlessFound(st, doc) ==
    IF st.priceCands # <<>> THEN st
    ELSE [st EXCEPT !.priceCands = @ \o CollectDataFrom(doc, 1)]

\* Lines 405-424
CollectData(st, doc) ==
    [st EXCEPT !.priceCands = @ \o CollectDataFrom(doc, 1)]

\* Lines 428-432
currentFirst ==
    << ".price--current", ".price__current", ".price-current",
       ".current-price", ".sales-price", ".final-price",
       ".priceToPay .a-offscreen", ".a-price .a-offscreen" >>

\* Lines 433-440
genericLater ==
    << ".sale-price", ".offer-price", ".product-price", ".price",
       "#price", "#priceblock_ourprice", "#priceblock_dealprice",
       ".a-price-whole", "span.a-price > span.a-offscreen",
       "[data-a-color='price']",
       "[class*='price'][class*='current']",
       "[class*='Price']" >>

strikeWords ==
    {Chars("uvp"), Chars("statt"), Chars("vorher"), Chars("durchgestrichen"),
     Chars("unverbindlich")}

\* Line 446: /\b(uvp|statt|vorher|durchgestrichen|unverbindlich)\b/i.test(txt)
HasStrikeWord(txt) ==
    LET low == toLowerCase(txt)
    IN  \E w \in strikeWords :
            \E i \in 1..(Len(low) - Len(w) + 1) :
                /\ SubSeq(low, i, i + Len(w) - 1) = w
                /\ (i = 1 \/ ~IsWordChar(low[i - 1]))
                /\ (i + Len(w) > Len(low) \/ ~IsWordChar(low[i + Len(w)]))

\* Lines 441-449: doc.css gives, for each selector, the text of its first
\* element (null if there is none).
RECURSIVE trySelectors(_, _, _, _)
trySelectors(doc, sels, tag, i) ==
    IF i > Len(sels) THEN <<>>
    ELSE LET sel == sels[i]
             txt == doc.css[sel]
         IN  (IF txt = Null \/ HasStrikeWord(txt.s) THEN <<>>
              ELSE Push(<<>>, parsePriceNumber(txt), "css:" \o tag \o ":" \o sel, <<>>))
             \o trySelectors(doc, sels, tag, i + 1)

\* Lines 450-451
CollectCss(st, doc) ==
    [st EXCEPT !.priceCands =
        @ \o trySelectors(doc, currentFirst, "current", 1)
          \o trySelectors(doc, genericLater, "generic", 1)]

(***************************************************************************)
(* The visible-text collector: the five regular expressions of lines        *)
(* 471-475 over the text of body.  A match is [index, end, group]: the      *)
(* position of its first character, the position after its last one and     *)
(* the text of its capture group.                                           *)
(***************************************************************************)
NoMatch == [index |-> 0, end |-> 0, group |-> <<>>]

WhiteSpace == {" ", "\t", "\n", "\r"}

\* The first position at or after i that holds no white space (\s*).
RECURSIVE SkipSpaces(_, _)
SkipSpaces(s, i) ==
    IF i <= Len(s) /\ s[i] \in WhiteSpace THEN SkipSpaces(s, i + 1) ELSE i

DigitsAt(s, i, n) == i + n - 1 <= Len(s) /\ \A j \in i..(i + n - 1) : IsDigit(s[j])

SeparatorAt(s, i) == i <= Len(s) /\ s[i] \in {".", ","}

\* \d{1,3}(?:[.,]\d{3})*[.,]\d{2} matches at i with d leading digits and g
\* groups of three.
AmountShape(s, i, d, g) ==
    /\ DigitsAt(s, i, d)
    /\ \A n \in 0..(g - 1) :
           SeparatorAt(s, i + d + 4 * n) /\ DigitsAt(s, i + d + 4 * n + 1, 3)
    /\ SeparatorAt(s, i + d + 4 * g) /\ DigitsAt(s, i + d + 4 * g + 1, 2)

AmountEnd(i, d, g) == i + d + 4 * g + 3

\* The order in which the matcher tries the shapes: the quantifiers are
\* greedy, so more leading digits first, then more groups.
TriedBefore(a, b) == a[1] > b[1] \/ (a[1] = b[1] /\ a[2] > b[2])

\* What follows the amount in the patterns that start with it: \s*€ (k = 1),
\* \s*EUR with flag i (k = 3); the position after it, or 0.
CurrencyAfter(s, e, k) ==
    LET c == SkipSpaces(s, e)
    IN  IF k = 1 THEN (IF c <= Len(s) /\ s[c] = "€" THEN c + 1 ELSE 0)
        ELSE IF c + 2 <= Len(s) /\ toLowerCase(SubSeq(s, c, c + 2)) = Chars("eur")
        THEN c + 3 ELSE 0

\* The shape the matcher finds first.
FirstTried(shapes) == CHOOSE a \in shapes : \A b \in shapes \ {a} : TriedBefore(a, b)

AmountFirstMatch(s, i, k, e) ==
    [index |-> i, end |-> CurrencyAfter(s, e, k), group |-> SubSeq(s, i, e - 1)]

AmountFirstOf(s, i, k, shapes) ==
    IF shapes = {} THEN NoMatch
    ELSE AmountFirstMatch(s, i, k, AmountEnd(i, FirstTried(shapes)[1], FirstTried(shapes)[2]))

\* (amount)\s*€ and (amount)\s*EUR at position i.
AmountFirstAt(s, i, k) ==
    AmountFirstOf(s, i, k,
                  {x \in (1..3) \X (0..(Len(s) \div 4)) :
                      /\ AmountShape(s, i, x[1], x[2])
                      /\ CurrencyAfter(s, AmountEnd(i, x[1], x[2]), k) # 0})

CurrencyFirstMatch(s, i, a, e) == [index |-> i, end |-> e, group |-> SubSeq(s, a, e - 1)]

CurrencyFirstOf(s, i, a, shapes) ==
    IF shapes = {} THEN NoMatch
    ELSE CurrencyFirstMatch(s, i, a,
                            AmountEnd(a, FirstTried(shapes)[1], FirstTried(shapes)[2]))

\* The amount after the currency, which ends before position a.
AmountAfter(s, i, a) ==
    CurrencyFirstOf(s, i, a,
                    {x \in (1..3) \X (0..(Len(s) \div 4)) : AmountShape(s, a, x[1], x[2])})

\* €\s*(amount) (k = 2) and EUR\s*(amount) with flag i (k = 4) at position i.
CurrencyFirstAt(s, i, k) ==
    IF k = 2
    THEN (IF s[i] = "€" THEN AmountAfter(s, i, SkipSpaces(s, i + 1)) ELSE NoMatch)
    ELSE IF i + 2 <= Len(s) /\ toLowerCase(SubSeq(s, i, i + 2)) = Chars("eur")
    THEN AmountAfter(s, i, SkipSpaces(s, i + 3))
    ELSE NoMatch

\* The match with the most digits among counts.
DashMatchOf(s, i, d) == [index |-> i, end |-> i + d + 2, group |-> SubSeq(s, i, i + d - 1)]

DashMatch(s, i, counts) ==
    IF counts = {} THEN NoMatch
    ELSE DashMatchOf(s, i, CHOOSE x \in counts : \A y \in counts : x >= y)

\* (\d{1,4})(?:,-)\b at position i: "-" is not a word character, so the
\* boundary asks for a word character after the dash.
DashShorthandAt(s, i) ==
    LET counts == {d \in 1..4 :
                      /\ DigitsAt(s, i, d)
                      /\ i + d + 2 <= Len(s)
                      /\ s[i + d] = "," /\ s[i + d + 1] = "-"
                      /\ IsWordChar(s[i + d + 2])}
    IN  DashMatch(s, i, counts)

\* The match of pattern k (1..5, in the order of lines 471-475) at position i.
MatchAt(s, i, k) ==
    IF k \in {1, 3} THEN AmountFirstAt(s, i, k)
    ELSE IF k \in {2, 4} THEN CurrencyFirstAt(s, i, k)
    ELSE DashShorthandAt(s, i)

RECURSIVE AllMatches(_, _, _)
\* The match at the least of the starts and the matches after its end.
MatchesFrom(s, k, starts) ==
    IF starts = {} THEN <<>>
    ELSE <<MatchAt(s, Least(starts), k)>> \o AllMatches(s, k, MatchAt(s, Least(starts), k).end)

\* The successive results of re.exec(body) for pattern k from position i on.
AllMatches(s, k, i) == MatchesFrom(s, k, {j \in i..Len(s) : MatchAt(s, j, k) # NoMatch})

ContextRadius == 60
BodyMax == 1000000

\* Lines 484-485
BodyCand(n, ctx) ==
    IF Falsy(n) \/ ~IsPositive(n) \/ NumCompare(n, NumOfNat(BodyMax)) > 0
    THEN <<>>
    ELSE Push(<<>>, n, "regex:body", ctx)

\* Line 482
RawAmount(group) ==
    IF IncludesText(group, Chars(",-"))
    THEN ReplaceFirstText(group, Chars(",-"), Chars(",00"))
    ELSE group

\* Lines 480-485: the candidate one match pushes.
BodyMatch(body, m) ==
    BodyCand(parsePriceNumber(Str(RawAmount(m.group))),
             SubSeq(body, IF m.index - ContextRadius > 1 THEN m.index - ContextRadius ELSE 1,
                    IF m.index - 1 + ContextRadius < Len(body)
                    THEN m.index - 1 + ContextRadius ELSE Len(body)))

RECURSIVE BodyMatches(_, _, _)
BodyMatches(body, ms, i) ==
    IF i > Len(ms) THEN <<>>
    ELSE BodyMatch(body, ms[i]) \o BodyMatches(body, ms, i + 1)

\* Lines 477-487: the patterns from k on.
RECURSIVE BodyPatterns(_, _)
BodyPatterns(body, k) ==
    IF k > 5 THEN <<>>
    ELSE BodyMatches(body, AllMatches(body, k, 1), 1) \o BodyPatterns(body, k + 1)

\* Lines 468-488
CollectBody(st, doc) ==
    [st EXCEPT !.priceCands = @ \o BodyPatterns(doc.body, 1)]

(***************************************************************************)
(* Images.  An element of the document is [matches, attrs]: the selectors   *)
(* it matches and its attributes (Null when the attribute is missing).      *)
(***************************************************************************)
\* s.trim()
RECURSIVE TrimEnd(_)
TrimEnd(s) ==
    IF s # <<>> /\ s[Len(s)] \in WhiteSpace THEN TrimEnd(SubSeq(s, 1, Len(s) - 1)) ELSE s

Trim(s) == TrimEnd(SubSeq(s, SkipSpaces(s, 1), Len(s)))

\* The character classes \s, \S and \d.
OfClass(c, class) ==
    IF class = "s" THEN c \in WhiteSpace
    ELSE IF class = "S" THEN c \notin WhiteSpace
    ELSE IsDigit(c)

\* The position after the run of characters of a class that starts at i.
RECURSIVE RunEnd(_, _, _)
RunEnd(s, i, class) ==
    IF i <= Len(s) /\ OfClass(s[i], class) THEN RunEnd(s, i + 1, class) ELSE i

\* The value of a run of digits (parseInt(digits, 10)).
RECURSIVE NatOf(_)
NatOf(ds) ==
    IF ds = <<>> THEN 0 ELSE 10 * NatOf(SubSeq(ds, 1, Len(ds) - 1)) + DigitValue(ds[Len(ds)])

\* seg.match(/(\S+)\s+(\d+)w/) with the match starting at i: [url, w], or
\* Null.  The quantifiers are greedy and the classes that follow each other
\* are disjoint, so each run is maximal.
WidthMatchAt(seg, i) ==
    LET a == RunEnd(seg, i, "S")
        b == RunEnd(seg, a, "s")
        c == RunEnd(seg, b, "d")
    IN  IF i <= Len(seg) /\ a > i /\ b > a /\ c > b /\ c <= Len(seg) /\ seg[c] = "w"
        THEN [url |-> SubSeq(seg, i, a - 1), w |-> NatOf(SubSeq(seg, b, c - 1))]
        ELSE Null

PartAt(seg, starts) ==
    IF starts # {} THEN WidthMatchAt(seg, Least(starts))
    ELSE [url |-> Split(seg, " ")[1], w |-> 0]

\* Lines 103-105: one segment of a srcset.
SrcsetPart(seg) == PartAt(seg, {i \in 1..Len(seg) : WidthMatchAt(seg, i) # Null})

\* Lines 99-107
SrcsetParts(segs) == [i \in 1..Len(segs) |-> SrcsetPart(Trim(segs[i]))]

\* Lines 108-110: the sort is stable, so the first of the widest parts.
Widest(parts) ==
    IF Len(parts) = 0 THEN Null
    ELSE Str(parts[CHOOSE x \in 1..Len(parts) :
                       /\ \A y \in 1..Len(parts) : parts[y].w <= parts[x].w
                       /\ \A y \in 1..(x - 1) : parts[y].w < parts[x].w].url)

\* Lines 97-111
pickFromSrcset(srcset) ==
    IF Falsy(srcset) THEN Null
    ELSE Widest(SelectSeq(SrcsetParts(Split(srcset.s, ",")), LAMBDA o : o.url # <<>>))

candidateAttrs ==
    <<"src", "data-src", "data-original", "data-large_image", "data-zoom-image",
      "data-lazy", "content">>

ElementAttrs ==
    {candidateAttrs[i] : i \in 1..Len(candidateAttrs)}
        \cup {"srcset", "data-srcset", "width", "height"}

\* The value the pairs <<name, text>> give for a name, null if they give none.
Lookup(pairs, name) ==
    IF \E i \in 1..Len(pairs) : pairs[i][1] = name
    THEN Text(pairs[CHOOSE i \in 1..Len(pairs) : pairs[i][1] = name][2])
    ELSE Null

\* An element with the given attributes; the others are missing.
Element(matches, given) ==
    [matches |-> matches, attrs |-> [a \in ElementAttrs |-> Lookup(given, a)]]

\* Lines 128 and 135: abs && !/sprite|icon|logo|placeholder|loading/i.test(abs)
AcceptedImage(abs) == IF ~Falsy(abs) /\ ~DenyListed(abs.s) THEN abs ELSE Null

\* Lines 124-130: the first attribute that yields an acceptable address.
RECURSIVE FirstAttrCandidate(_, _, _)
FirstAttrCandidate(el, pageUrl, i) ==
    IF i > Len(candidateAttrs) THEN Null
    ELSE Or(AcceptedImage(absolutize(el.attrs[candidateAttrs[i]], pageUrl)),
            FirstAttrCandidate(el, pageUrl, i + 1))

\* Lines 113-137; el is Null when the selection is empty.
getImgCandidateFromEl(el, pageUrl) ==
    IF el = Null THEN Null
    ELSE Or(FirstAttrCandidate(el, pageUrl, 1),
            AcceptedImage(absolutize(pickFromSrcset(Or(el.attrs["srcset"],
                                                  el.attrs["data-srcset"])),
                                pageUrl)))

imgSelectors ==
    <<"#landingImage", "#imgBlkFront", ".product-image img", ".product-gallery img",
      "#main-image", "[data-testid='product-image']", "[class*='ProductImage'] img",
      "[class*='product-img'] img", ".gallery-main img", "[itemprop='image']",
      "img[data-old-hires]", "img">>

\* $(sel).first()
First(elements, sel) ==
    LET hits == {i \in 1..Len(elements) : sel \in elements[i].matches}
    IN  IF hits = {} THEN Null
        ELSE elements[CHOOSE i \in hits : \A j \in hits : i <= j]

\* Lines 168-172
RECURSIVE FirstSelectorImage(_, _, _)
FirstSelectorImage(doc, pageUrl, i) ==
    IF i > Len(imgSelectors) THEN Null
    ELSE Or(getImgCandidateFromEl(First(doc.elements, imgSelectors[i]), pageUrl),
            FirstSelectorImage(doc, pageUrl, i + 1))

\* parseInt(attr) || 0 for an attribute that is missing or holds digits
\* after optional white space; anything else gives NaN, hence 0.
Dimension(v) ==
    IF v = Null THEN 0
    ELSE LET i == SkipSpaces(v.s, 1) IN NatOf(SubSeq(v.s, i, RunEnd(v.s, i, "d") - 1))

MinArea == 40000

\* Lines 181-189: best and maxArea after one img with candidate src.
Larger(best, src, area) ==
    IF ~Falsy(src) /\ area > best.area /\ area > MinArea
    THEN [src |-> src, area |-> area]
    ELSE best

\* Lines 178-191: the largest image of more than MinArea; best = [src, area].
RECURSIVE LargestImage(_, _, _, _)
LargestImage(doc, pageUrl, i, best) ==
    IF i > Len(doc.elements) THEN best.src
    ELSE LargestImage(doc, pageUrl, i + 1,
                      Larger(best,
                             IF "img" \in doc.elements[i].matches
                             THEN getImgCandidateFromEl(doc.elements[i], pageUrl)
                             ELSE Null,
                             Dimension(doc.elements[i].attrs["width"])
                                 * Dimension(doc.elements[i].attrs["height"])))

metaImageNames == <<"og:image:url", "og:image", "og:image:secure_url", "twitter:image">>

\* a || b || ... || null over the attribute values named by names
RECURSIVE FirstTruthy(_, _, _)
FirstTruthy(values, names, i) ==
    IF i > Len(names) THEN Null
    ELSE IF ~Falsy(values[names[i]]) THEN values[names[i]]
    ELSE FirstTruthy(values, names, i + 1)

\* .find(Boolean) over a list of attribute values
RECURSIVE FindTruthy(_, _)
FindTruthy(list, i) ==
    IF i > Len(list) THEN Null
    ELSE IF ~Falsy(list[i]) THEN list[i] ELSE FindTruthy(list, i + 1)

\* A variant of findBestImage that asks the preload hint first.
findBestImage_PreloadFirst(doc, pageUrl) ==
    Or(absolutize(doc.preload, pageUrl),
       Or(absolutize(FirstTruthy(doc.meta, metaImageNames, 1), pageUrl),
          Or(absolutize(pickFromSrcset(FindTruthy(doc.pictureSources, 1)), pageUrl),
             Or(FirstSelectorImage(doc, pageUrl, 1),
                Or(LargestImage(doc, pageUrl, 1, [src |-> Null, area |-> 0]), Null)))))

\* Lines 139-194
findBestImage(doc, pageUrl) ==
    LET image == absolutize(FirstTruthy(doc.meta, metaImageNames, 1), pageUrl)
        bestPic == absolutize(pickFromSrcset(FindTruthy(doc.pictureSources, 1)), pageUrl)
        bySelector == FirstSelectorImage(doc, pageUrl, 1)
        absPreload == absolutize(doc.preload, pageUrl)
        best == LargestImage(doc, pageUrl, 1, [src |-> Null, area |-> 0])
    IN  Or(image, Or(bestPic, Or(bySelector, Or(absPreload, Or(best, Null)))))

titleNames == <<"og:title", "twitter:title", "title", "h1">>

\* Lines 63-80; doc.meta holds, next to the meta tags, the trimmed text of
\* the first title and h1 and the href of link[rel="image_src"].
extractMeta(doc) ==
    [title |-> FirstTruthy(doc.meta, titleNames, 1),
     image |-> FirstTruthy(doc.meta, metaImageNames \o <<"image_src">>, 1)]

(***************************************************************************)
(* universalExtract: the sequence of the collectors and the arbitration     *)
(***************************************************************************)
\* A variant of CollectOgImage that replaces an image already set.
CollectOgImage_Overwrite(st, doc, pageUrl) ==
    WithImage(st, findBestImage(doc, pageUrl), "image:auto")

\* Lines 398-401
CollectOgImage(st, doc, pageUrl) ==
    IF ~Falsy(st.image) THEN st
    ELSE WithImage(st, findBestImage(doc, pageUrl), "image:auto")

\* Lines 457-464: the candidates and the first image of acc are taken over.
TakeOver(st, acc) ==
    IF Falsy(st.image) /\ Len(acc.images) > 0
    THEN [st EXCEPT !.priceCands = @ \o acc.priceCands,
                    !.image = acc.images[1],
                    !.strategies = Append(@, "jsonblob:image")]
    ELSE IF Len(acc.images) > 0
    THEN [st EXCEPT !.priceCands = @ \o acc.priceCands,
                    !.strategies = Append(@, "jsonblob:image:candidate")]
    ELSE [st EXCEPT !.priceCands = @ \o acc.priceCands]

\* Lines 455-465
CollectJsonBlob(st, doc, pageUrl) ==
    TakeOver(st, extractFromInlineJSON(doc.scripts, pageUrl, Found(<<>>, <<>>)))

\* Lines 334-336: the local variables at the start of a call.
NoCandidates == [priceCands |-> <<>>, image |-> Null, strategies |-> <<>>]

\* The blocks of lines 344-488, in order.
Collectors ==
    <<"JSON-LD", "Microdata", "OG/Twitter", "data-*", "CSS", "JSON-Blob", "Regex-Fallback">>

Collect(st, doc, pageUrl, k) ==
    CASE k = 1 -> CollectJsonLd(st, doc, pageUrl)
      [] k = 2 -> CollectMicrodata(st, doc)
      [] k = 3 -> CollectOgImage(CollectOgPrice(st, doc), doc, pageUrl)
      [] k = 4 -> CollectData(st, doc)
      [] k = 5 -> CollectCss(st, doc)
      [] k = 6 -> CollectJsonBlob(st, doc, pageUrl)
      [] OTHER -> CollectBody(st, doc)

RECURSIVE CollectFrom(_, _, _, _)
CollectFrom(st, doc, pageUrl, k) ==
    IF k > Len(Collectors) THEN st
    ELSE CollectFrom(Collect(st, doc, pageUrl, k), doc, pageUrl, k + 1)

\* The characters of a text as one string.
RECURSIVE Joined(_)
Joined(chars) == IF chars = <<>> THEN "" ELSE chars[1] \o Joined(Tail(chars))

\* String(n) for a length
CountText(n) == IF n = 0 THEN "0" ELSE Joined(NatDigits(n))

\* Lines 490-492; debug is the value of DEBUG.
Arbitrate(st, debug) ==
    [price |-> chooseBestPrice(st.priceCands),
     image |-> st.image,
     strategies |-> IF debug
                    THEN Append(st.strategies, "candidates:" \o CountText(Len(st.priceCands)))
                    ELSE st.strategies,
     priceCands |-> st.priceCands]

\* Lines 333-493
universalExtract(doc, pageUrl, debug) ==
    Arbitrate(CollectFrom(NoCandidates, doc, pageUrl, 1), debug)

(***************************************************************************)
(* Inputs of parsePriceNumber                                               *)
(***************************************************************************)
\* A text is at most MaxGroups digit groups joined by separators.
MaxGroups == 3

DigitGroups ==
    {<<>>, <<"1">>, <<"5">>, Chars("00"), Chars("299"), Chars("000")}

Separators == {<<>>, <<",">>, <<".">>, <<"-">>}

Suffixes == {<<>>, Chars("EUR")}

RECURSIVE GroupedTexts(_)
GroupedTexts(n) ==
    IF n <= 1 THEN DigitGroups
    ELSE {t \o s \o g : t \in GroupedTexts(n - 1), s \in Separators, g \in DigitGroups}

ExampleInputs ==
    { Null,
      MkNum(FALSE, <<>>, <<>>),
      MkNum(FALSE, Chars("49"), Chars("99")),
      MkNum(TRUE, <<"5">>, <<>>),
      Str(Chars("abc")),
      Str(<<"0">>),
      Str(Chars("€ 49,90")),
      Str(Chars("379,-")),
      Str(Chars("379,- €")),
      Str(Chars("379,-EUR.")) }

ParseInputs ==
    {Str(t \o x) : t \in GroupedTexts(MaxGroups), x \in Suffixes} \cup ExampleInputs

(***************************************************************************)
(* SpecParse: one call of parsePriceNumber on any input                     *)
(***************************************************************************)
ParseIdle == str = Null /\ num = Null /\ ppc = "idle"
ChooseIdle == candList = <<>> /\ chosen = Null /\ cpc = "idle"
ExtractIdle ==
    exDoc = Null /\ exState = Null /\ exStep = 0 /\ exOut = Null /\ exCalls = <<>>
ServerIdle == USE_BROWSER = FALSE /\ browserSingleton = 0 /\ launches = 0 /\ reqs = <<>>

InitParse ==
    /\ str \in ParseInputs
    /\ num = Null
    /\ ppc = "call"
    /\ DEBUG = FALSE
    /\ ChooseIdle
    /\ ExtractIdle
    /\ ServerIdle

ParseCall ==
    /\ ppc = "call"
    /\ num' = parsePriceNumber(str)
    /\ ppc' = "done"
    /\ UNCHANGED <<str, chooseVars, DEBUG, extractVars, serverVars>>

NextParse == ParseCall

SpecParse == InitParse /\ [][NextParse]_vars

(***************************************************************************)
(* SpecChoose: one call of chooseBestPrice on any candidate list            *)
(***************************************************************************)
\* The lists hold at most MaxCands candidates.
MaxCands == 3

Dec(ip, fp) == MkNum(FALSE, ip, fp)

CandidateValues ==
    { Dec(<<"5">>, <<>>),
      Dec(Chars("10"), <<>>),
      Dec(Chars("17"), Chars("99")),
      Dec(Chars("19"), Chars("99")),
      Dec(Chars("25"), <<>>),
      Dec(Chars("30"), <<>>),
      Dec(Chars("100000"), <<>>),
      Dec(Chars("100001"), <<>>) }

CtxNone == <<>>
CtxGross == Chars("inkl. MwSt")
CtxNet == Chars("netto")

Candidate(v, ctx) == [value |-> v, source |-> "regex:body", context |-> ctx]

\* Every value without tax context, some of them also with a tax-inclusive
\* or a net-price context.
GrossValues == {Dec(Chars("19"), Chars("99")), Dec(Chars("30"), <<>>)}

NetValues ==
    { Dec(<<"5">>, <<>>),
      Dec(Chars("17"), Chars("99")),
      Dec(Chars("19"), Chars("99")),
      Dec(Chars("100001"), <<>>) }

Candidates ==
    {Candidate(v, CtxNone) : v \in CandidateValues}
    \cup {Candidate(v, CtxGross) : v \in GrossValues}
    \cup {Candidate(v, CtxNet) : v \in NetValues}

RECURSIVE ListsUpTo(_, _)
ListsUpTo(S, n) ==
    IF n = 0 THEN {<<>>}
    ELSE LET shorter == ListsUpTo(S, n - 1)
         IN  shorter \cup {Append(l, x) : l \in {k \in shorter : Len(k) = n - 1}, x \in S}

InitChoose ==
    /\ candList \in ListsUpTo(Candidates, MaxCands)
    /\ chosen = Null
    /\ cpc = "call"
    /\ DEBUG = FALSE
    /\ ParseIdle
    /\ ExtractIdle
    /\ ServerIdle

ChooseCall ==
    /\ cpc = "call"
    /\ chosen' = chooseBestPrice(candList)
    /\ cpc' = "done"
    /\ UNCHANGED <<candList, parseVars, DEBUG, extractVars, serverVars>>

NextChoose == ChooseCall

SpecChoose == InitChoose /\ [][NextChoose]_vars

(***************************************************************************)
(* Documents.  A document is what the selectors of the extraction read     *)
(* from the parsed page:                                                    *)
(*   scripts         the script elements, in document order;                *)
(*   meta            the content of the first meta element of each name,    *)
(*                   the trimmed text of title and h1, and the href of      *)
(*                   link[rel="image_src"];                                  *)
(*   itemprop        the first [itemprop="price"] element;                  *)
(*   data, css       the first element of each selector;                    *)
(*   pictureSources  the srcset of each source element of a picture;        *)
(*   elements        the elements the image selectors read;                 *)
(*   preload         the href of link[rel="preload"][as="image"];           *)
(*   body            the text of body: the texts of its elements, in        *)
(*                   document order.  The scripts stand in head.            *)
(***************************************************************************)
MetaNames ==
    {"product:price:amount", "og:price:amount", "twitter:data1",
     "og:image:url", "og:image", "og:image:secure_url", "twitter:image",
     "og:title", "twitter:title", "title", "h1", "image_src"}

Meta(given) == [n \in MetaNames |-> Lookup(given, n)]

\* An element read for its price: its three data attributes and its text.
PriceElement(dataPrice, dataPriceAmount, dataProductPrice, text) ==
    [dataPrice |-> dataPrice, dataPriceAmount |-> dataPriceAmount,
     dataProductPrice |-> dataProductPrice, text |-> Text(text)]

\* The first element of each selector of sels, given as pairs
\* <<selector, element>>.
FirstOfEach(sels, given) ==
    [sel \in {sels[i] : i \in 1..Len(sels)} |->
        IF \E i \in 1..Len(given) : given[i][1] = sel
        THEN given[CHOOSE i \in 1..Len(given) : given[i][1] = sel][2]
        ELSE Null]

RECURSIVE Concat(_)
Concat(texts) == IF texts = <<>> THEN <<>> ELSE Chars(texts[1]) \o Concat(Tail(texts))

\* head: the scripts, the meta elements and the preload link; body: the
\* elements with their texts.
Document(scripts, meta, preload, itemprop, data, css, pictureSources, elements, texts) ==
    [scripts |-> scripts,
     meta |-> Meta(meta),
     preload |-> preload,
     itemprop |-> itemprop,
     data |-> FirstOfEach(dataSelectors, data),
     css |-> FirstOfEach(currentFirst \o genericLater, css),
     pictureSources |-> pictureSources,
     elements |-> elements,
     body |-> Concat(texts)]

LdJson == Text("application/ld+json")

\* <script type="application/ld+json"> of a product with an offer and an
\* image
ProductScript ==
    Script(LdJson, 120,
           Obj(<<Entry("@type", Text("Product")),
                 Entry("name", Text("Lampe")),
                 Entry("image", Text("/img/lampe.jpg")),
                 Entry("offers", Obj(<<Entry("@type", Text("Offer")),
                                       Entry("price", Text("129.00")),
                                       Entry("priceCurrency", Text("EUR"))>>))>>),
           <<>>, <<>>)

\* A graph whose offers carry a zero price, a number, a low price and a
\* negative price, after a null node's sibling script.
GraphScript ==
    Script(LdJson, 200,
           Obj(<<Entry("@graph",
                       Arr(<<Obj(<<Entry("@type", Text("Offer")),
                                   Entry("price", MkNum(TRUE, <<"5">>, <<>>))>>),
                             Obj(<<Entry("@type", Text("Product")),
                                   Entry("image", Arr(<<Obj(<<Entry("url", Text("//cdn.example/g.png"))>>)>>)),
                                   Entry("offers",
                                         Arr(<<Obj(<<Entry("price", Text("0,00"))>>),
                                               Obj(<<Entry("price", MkNum(FALSE, Chars("49"), <<"9">>)),
                                                     Entry("lowPrice", Text("39,90 EUR"))>>)>>))>>)>>))>>),
           <<>>, <<>>)

\* JSON-LD whose graph holds a null node: the loop throws at it.
NullNodeScript ==
    Script(LdJson, 60,
           Obj(<<Entry("@graph",
                       Arr(<<Obj(<<Entry("@type", Text("Product")),
                                   Entry("price", Text("19,99"))>>),
                             Null>>))>>),
           <<>>, <<>>)

\* <script> without a type holding the state of a single-page application.
StateScript ==
    Script(Null, 150,
           Obj(<<Entry("product",
                       Obj(<<Entry("currentPrice", MkNum(FALSE, Chars("49"), <<"9">>)),
                             Entry("oldPrice", Text("0")),
                             Entry("discountValue", MkNum(TRUE, Chars("10"), <<>>)),
                             Entry("priceLabel", Text("abc")),
                             Entry("thumbnail", Text("/img/thumb-icon.png")),
                             Entry("image", Obj(<<Entry("url", Text("https://cdn.example/p.jpg"))>>))>>)),
                 Entry("amounts", Arr(<<Text("19,99"), Null>>))>>),
           <<>>, <<>>)

\* <script> whose text is not JSON: the regular expressions read it.
BrokenScript ==
    Script(Null, 90, Malformed,
           <<[k |-> "price", v |-> Text("49,90")],
             [k |-> "Price", v |-> Text("0")],
             [k |-> "value", v |-> Text("-5")],
             [k |-> "amount", v |-> Text("n/a")],
             [k |-> "title", v |-> Text("12,00")]>>,
           <<Chars("https://cdn.example/b.webp")>>)

\* A script below the minimal length, and a malformed JSON-LD script.
ShortScript == Script(Text("application/json"), 20, Obj(<<Entry("price", Text("5,00"))>>), <<>>, <<>>)

BrokenLdScript == Script(LdJson, 70, Malformed, <<[k |-> "lowPrice", v |-> Text("89,00")]>>, <<>>)

ScriptLists ==
    { <<>>,
      <<ProductScript>>,
      <<GraphScript, ShortScript>>,
      <<NullNodeScript, StateScript>>,
      <<BrokenLdScript, StateScript, BrokenScript>>,
      <<GraphScript, ProductScript>>,
      <<NullNodeScript, BrokenLdScript, ProductScript>> }

\* The meta elements and the preload link of head.
Heads ==
    { [meta |-> <<>>, preload |-> Null],
      [meta |-> << <<"og:price:amount", "49,90">>, <<"og:image", "/img/og.jpg">>,
                   <<"og:title", "Lampe">> >>,
       preload |-> Null],
      [meta |-> << <<"product:price:amount", "0">>, <<"twitter:data1", "19,99 €">>,
                   <<"twitter:image", "data:image/png;base64,AAAA">>,
                   <<"image_src", "/img/link.jpg">>, <<"title", "Shop">> >>,
       preload |-> Text("/img/hero.jpg")],
      [meta |-> << <<"og:image", "/assets/shop-logo.png">> >>, preload |-> Null] }

\* The elements of body.
Bodies ==
    { [itemprop |-> Null, data |-> <<>>, css |-> <<>>, pictureSources |-> <<>>,
       elements |-> <<>>, texts |-> <<>>],
      [itemprop |-> [content |-> Text("19.99"), text |-> Text("19,99 €")],
       data |-> << <<"[data-price]", PriceElement(Text("-1"), Null, Null, "")>>,
                   <<"[data-testid*='price']", PriceElement(Null, Null, Null, "19,99 €")>> >>,
       css |-> << <<".price", Text("UVP 59,90 €")>> >>,
       pictureSources |-> <<Null, Text("/img/s.jpg 400w, /img/l.jpg 800w")>>,
       elements |-> <<Element({"img"}, << <<"src", "/img/logo.png">>, <<"width", "300">>,
                                          <<"height", "200">> >>)>>,
       texts |-> <<"19,99 €", "UVP 59,90 €", " inkl. MwSt">>],
      [itemprop |-> [content |-> Null, text |-> Text("")],
       data |-> <<>>,
       css |-> << <<".price--current", Text("49,90 €")>>,
                  <<"[class*='price'][class*='current']", Text("49,90 €")>>,
                  <<".product-price", Text("ab 0,00 €")>> >>,
       pictureSources |-> <<>>,
       elements |-> <<Element({"img", ".product-image img"},
                              << <<"data-src", "/img/placeholder.gif">>,
                                 <<"srcset", "/img/p1.jpg 1x, /img/p2.jpg 2x">> >>),
                      Element({"img"}, << <<"src", "/img/big.jpg">>, <<"width", "800">>,
                                          <<"height", "600">> >>)>>,
       texts |-> <<"49,90 €", "ab 0,00 €", " nur 379,-EUR oder EUR 1.299.000,00">>],
      [itemprop |-> Null, data |-> <<>>, css |-> <<>>, pictureSources |-> <<>>,
       elements |-> <<Element({"img"}, << <<"src", "/img/photo.jpg">>, <<"width", "640">>,
                                          <<"height", "480">> >>)>>,
       texts |-> <<"Preis: 17,99 € netto, 19,99 € inkl. MwSt, 19,99 EUR">>],
      [itemprop |-> Null, data |-> <<>>, css |-> <<>>, pictureSources |-> <<>>,
       elements |-> <<Element({"img"}, << <<"src", "/img/cart-icon.png">>, <<"width", "900">>,
                                          <<"height", "900">> >>),
                      Element({"img"}, << <<"src", "/img/small.jpg">>, <<"width", "200">>,
                                          <<"height", "200">> >>),
                      Element({"img"}, << <<"src", "/img/wide.jpg">>, <<"width", " 700">>,
                                          <<"height", "400px">> >>),
                      Element({"img"}, << <<"src", "/img/mid.jpg">>, <<"width", "500">>,
                                          <<"height", "400">> >>)>>,
       texts |-> <<"Jetzt nur 379,- inkl. MwSt">>] }

Documents ==
    { Document(s, h.meta, h.preload, b.itemprop, b.data, b.css, b.pictureSources,
               b.elements, b.texts) :
        s \in ScriptLists, h \in Heads, b \in Bodies }

\* The address of the page the documents were loaded from.
PageUrl == Chars("https://shop.example/p/1")

(***************************************************************************)
(* SpecExtract: one call of universalExtract on any document, block by      *)
(* block                                                                    *)
(***************************************************************************)
InitExtract ==
    /\ DEBUG \in BOOLEAN
    /\ exDoc \in Documents
    /\ exState = NoCandidates
    /\ exStep = 1
    /\ exOut = Null
    /\ exCalls = <<>>
    /\ ParseIdle
    /\ ChooseIdle
    /\ ServerIdle

\* One block of lines 344-488.
Block(k) ==
    /\ exStep = k
    /\ exState' = Collect(exState, exDoc, PageUrl, k)
    /\ exStep' = k + 1
    /\ UNCHANGED <<exDoc, exOut, exCalls, DEBUG, parseVars, chooseVars, serverVars>>

JsonLdBlock == Block(1)
MicrodataBlock == Block(2)
OgTwitterBlock == Block(3)
DataBlock == Block(4)
CssBlock == Block(5)
JsonBlobBlock == Block(6)
RegexFallbackBlock == Block(7)

\* Lines 490-492
ExtractReturn ==
    /\ exStep = Len(Collectors) + 1
    /\ exOut' = Arbitrate(exState, DEBUG)
    /\ exStep' = 0
    /\ UNCHANGED <<exDoc, exState, exCalls, DEBUG, parseVars, chooseVars, serverVars>>

NextExtract ==
    \/ JsonLdBlock
    \/ MicrodataBlock
    \/ OgTwitterBlock
    \/ DataBlock
    \/ CssBlock
    \/ JsonBlobBlock
    \/ RegexFallbackBlock
    \/ ExtractReturn

SpecExtract == InitExtract /\ [][NextExtract]_vars

(***************************************************************************)
(* SpecRepeat: up to MaxCalls calls of universalExtract in one process, one *)
(* after the other, each on any of the pages                                *)
(***************************************************************************)
MaxCalls == 3

\* A variant of CallLocals in which priceCands, image and strategies outlive
\* the call.
CallLocals_Kept(last) == last

\* Lines 334-336: the locals of a call are created by the call, whatever an
\* earlier call left in its own.
CallLocals(last) == NoCandidates

\* The pages of the repeated calls: with a product script or with malformed
\* scripts, each with one of two body texts.
RepeatDocuments ==
    {d \in Documents :
        /\ d.scripts \in {<<ProductScript>>, <<BrokenLdScript, StateScript, BrokenScript>>}
        /\ d.meta = Meta(<<>>) /\ d.preload = Null
        /\ IncludesText(d.body, Chars("379,-EUR")) \/ IncludesText(d.body, Chars("netto"))}

InitRepeat ==
    /\ DEBUG \in BOOLEAN
    /\ exDoc \in RepeatDocuments
    /\ exState = NoCandidates
    /\ exStep = 1
    /\ exOut = Null
    /\ exCalls = <<>>
    /\ ParseIdle
    /\ ChooseIdle
    /\ ServerIdle

\* Line 333: the next call, after the one before has returned.
CallAgain(doc) ==
    /\ exStep = 0
    /\ exOut # Null
    /\ Len(exCalls) < MaxCalls - 1
    /\ exCalls' = Append(exCalls, [doc |-> exDoc, out |-> exOut])
    /\ exDoc' = doc
    /\ exState' = CallLocals(exState)
    /\ exStep' = 1
    /\ exOut' = Null
    /\ UNCHANGED <<DEBUG, parseVars, chooseVars, serverVars>>

NextRepeat ==
    \/ NextExtract
    \/ \E doc \in RepeatDocuments : CallAgain(doc)

SpecRepeat == InitRepeat /\ [][NextRepeat]_vars

(***************************************************************************)
(* The /api/price handler (lines 535-678) with getBrowser and              *)
(* renderWithBrowser (lines 498-530).  A handler runs without interruption  *)
(* from one await to the next; an action is the run that starts when a      *)
(* request arrives or when the awaited operation settles.  The request      *)
(* headers are not modelled.                                                *)
(***************************************************************************)
MaxRequests == 2

Requests == 1..MaxRequests

\* The pages a fetch or a render can deliver: one with a price and an
\* image, one with a price only, one with an image only, an empty one.
Pages ==
    << Document(<<ProductScript>>,
                << <<"og:image", "/img/og.jpg">>, <<"og:title", "Lampe">> >>, Null,
                Null, <<>>, <<>>, <<>>, <<>>, <<>>),
       Document(<<>>, << <<"title", "Shop">> >>, Null,
                Null, <<>>, << <<".price", Text("49,90 €")>> >>, <<>>, <<>>,
                <<"49,90 €">>),
       Document(<<>>, << <<"image_src", "/img/link.jpg">> >>, Text("/img/hero.jpg"),
                Null, <<>>, <<>>, <<>>, <<>>, <<"Bitte warten">>),
       Document(<<>>, << <<"image_src", "/img/link.jpg">> >>, Null,
                Null, <<>>, <<>>, <<>>, <<>>, <<>>) >>

\* What an awaited fetch or render settles with: a rejection, or a body;
\* body 0 is the empty text, body i the text of Pages[i].
Rejected == [ok |-> FALSE, body |-> 0]
Fulfilled(body) == [ok |-> TRUE, body |-> body]

FetchOutcomes == {Rejected} \cup {Fulfilled(b) : b \in 0..Len(Pages)}
RenderOutcomes == {Rejected} \cup {Fulfilled(b) : b \in 1..Len(Pages)}

\* The values of the query parameter url.
QueryUrls ==
    { Chars(""), Chars("http:// x"), Chars(" shop.example/p/1"),
      Chars("https://www.amazon.de/dp/B01") }

\* Line 542: /^https?:\/\//i.test(targetUrl)
HasHttpScheme(s) ==
    \/ StartsWith(toLowerCase(s), Chars("http://"))
    \/ StartsWith(toLowerCase(s), Chars("https://"))

\* Lines 536-545: targetUrl after the correction of line 543.
TargetOf(url) ==
    LET trimmed == Trim(url)
    IN  IF trimmed = <<>> \/ HasHttpScheme(trimmed) THEN trimmed
        ELSE Chars("https://") \o trimmed

\* Line 546: new URL(targetUrl) does not throw.
ValidUrl(targetUrl) == ResolveUrl(targetUrl, <<>>) # Null

\* The target URLs that pass lines 541 and 546.
TargetUrls ==
    {TargetOf(u) : u \in {x \in QueryUrls : TargetOf(x) # <<>> /\ ValidUrl(TargetOf(x))}}

\* universalExtract and extractMeta of each page for each target URL and
\* value of DEBUG.
Extracted ==
    [i \in 1..Len(Pages), u \in TargetUrls, d \in BOOLEAN |-> universalExtract(Pages[i], u, d)]

MetaOf == [i \in 1..Len(Pages) |-> extractMeta(Pages[i])]

\* The locals of a request that has not arrived.  launch is the number of
\* the chromium.launch call the request awaits, browser the instance that
\* getBrowser returned to it, renders the number of its calls of
\* renderWithBrowser and res the response sent.  context is the state of
\* the browser context of its render ("none" before line 511), retryCount
\* the number of retries got has made for the pending direct fetch, aborted
\* tells that the caller has closed the connection.
NoRequest ==
    [pc |-> "idle", targetUrl |-> <<>>, forceRender |-> FALSE, html |-> 0, used |-> "",
     meta |-> Null, out |-> Null, viaBrowser |-> FALSE, html2 |-> 0, launch |-> 0,
     browser |-> 0, renders |-> 0, res |-> Null, context |-> "none",
     retryCount |-> 0, aborted |-> FALSE]

Response(status, error, price, title, image, strategies, source, candidates) ==
    [status |-> status, error |-> error, price |-> price, title |-> title,
     image |-> image, strategies |-> strategies, source |-> source,
     candidates |-> candidates]

ErrorResponse(status, error) == Response(status, error, Null, Null, Null, Null, Null, Null)

\* A variant of Respond that reports a missing price as a page that could
\* not be loaded.
Respond_NoPriceAsLoadFailure(q) ==
    [q EXCEPT
       !.pc = "done",
       !.res =
          IF Falsy(q.out.price)
          THEN ErrorResponse(502, "Seite konnte nicht geladen werden")
          ELSE Response(200, Null, q.out.price, q.meta.title,
                        Or(Or(q.out.image, q.meta.image), Null),
                        IF DEBUG THEN Arr(Append(q.out.strategies, "source:" \o q.used))
                        ELSE Null,
                        Null,
                        IF DEBUG THEN Arr(q.out.priceCands) ELSE Null)]

\* Lines 647-672: the response for the final out and meta.
Respond(q) ==
    LET image == Or(Or(q.out.image, q.meta.image), Null)
    IN  [q EXCEPT
           !.pc = "done",
           !.res =
              IF Falsy(q.out.price)
              THEN Response(404, "Kein Preis gefunden", Null, q.meta.title, image,
                            IF DEBUG THEN Arr(q.out.strategies) ELSE Null,
                            IF DEBUG THEN q.used ELSE Null,
                            IF DEBUG THEN Arr(q.out.priceCands) ELSE Null)
              ELSE Response(200, Null, q.out.price, q.meta.title, image,
                            IF DEBUG THEN Arr(Append(q.out.strategies, "source:" \o q.used))
                            ELSE Null,
                            Null,
                            IF DEBUG THEN Arr(q.out.priceCands) ELSE Null)]

\* A variant of NeedsRender that renders for a missing price only.
NeedsRender_PriceOnly(forceRender, out) ==
    (forceRender \/ USE_BROWSER) /\ Falsy(out.price)

\* Line 633
NeedsRender(forceRender, out) ==
    (forceRender \/ USE_BROWSER) /\ (Falsy(out.price) \/ Falsy(out.image))

\* Lines 499-506 up to the first await of getBrowser, called from line 510:
\* without a browser the import is awaited, with one it is returned.
CallRender(q) ==
    IF browserSingleton = 0
    THEN [q EXCEPT !.pc = "import", !.renders = @ + 1]
    ELSE [q EXCEPT !.pc = "context", !.browser = browserSingleton, !.renders = @ + 1]

\* Lines 632-672: the render or the response after the static extraction.
AfterStatic(q) ==
    IF NeedsRender(q.forceRender, q.out) THEN CallRender(q) ELSE Respond(q)

\* Lines 622-672 for a non-empty html: the static extraction, then the
\* render or the response.
StaticExtraction(q, body) ==
    AfterStatic([q EXCEPT !.html = body,
                          !.meta = MetaOf[body],
                          !.out = Extracted[body, q.targetUrl, DEBUG]])

\* Lines 607-611: the reader fetch is started.
StartReader(q) == [q EXCEPT !.used = "reader", !.pc = "reader"]

\* Lines 536-583: a request arrives, is validated and starts the direct
\* fetch.
Receive(r, url, render) ==
    /\ reqs[r].pc = "idle"
    /\ LET targetUrl == TargetOf(url)
       IN  reqs' = [reqs EXCEPT ![r] =
               IF targetUrl = <<>>
               THEN [@ EXCEPT !.pc = "done",
                              !.res = ErrorResponse(400, "Parameter 'url' fehlt.")]
               ELSE IF ~ValidUrl(targetUrl)
               THEN [@ EXCEPT !.pc = "done", !.targetUrl = targetUrl,
                              !.res = ErrorResponse(400, "Ungültige URL.")]
               ELSE [@ EXCEPT !.pc = "direct", !.targetUrl = targetUrl,
                              !.forceRender = render, !.used = "direct"]]
    /\ UNCHANGED <<USE_BROWSER, browserSingleton, launches>>
    /\ UNCHANGED <<parseVars, chooseVars, DEBUG, extractVars>>

\* Line 582: retry: { limit: 1 }
RetryLimit == 1

\* Lines 576-583: a request of the direct fetch fails with an error that got
\* retries, and got sends the request again.
DirectRetries(r) ==
    /\ reqs[r].pc = "direct"
    /\ reqs[r].retryCount < RetryLimit
    /\ reqs' = [reqs EXCEPT ![r].retryCount = @ + 1]
    /\ UNCHANGED <<USE_BROWSER, browserSingleton, launches>>
    /\ UNCHANGED <<parseVars, chooseVars, DEBUG, extractVars>>

\* The call of got is over.
Settled(q) == [q EXCEPT !.retryCount = 0]

\* Lines 576-611: the direct fetch settles.
DirectSettles(r, outcome) ==
    /\ reqs[r].pc = "direct"
    /\ reqs' = [reqs EXCEPT ![r] =
           IF outcome.ok
           THEN (IF outcome.body # 0 THEN StaticExtraction(Settled(@), outcome.body)
                 ELSE StartReader(Settled(@)))
           ELSE IF IncludesText(@.targetUrl, Chars("amazon."))
           THEN [Settled(@) EXCEPT !.pc = "amazon"]
           ELSE StartReader(Settled(@))]
    /\ UNCHANGED <<USE_BROWSER, browserSingleton, launches>>
    /\ UNCHANGED <<parseVars, chooseVars, DEBUG, extractVars>>

\* Lines 590-611: the retry for an Amazon address settles.
AmazonSettles(r, outcome) ==
    /\ reqs[r].pc = "amazon"
    /\ reqs' = [reqs EXCEPT ![r] =
           IF outcome.ok /\ outcome.body # 0 THEN StaticExtraction(@, outcome.body)
           ELSE StartReader(@)]
    /\ UNCHANGED <<USE_BROWSER, browserSingleton, launches>>
    /\ UNCHANGED <<parseVars, chooseVars, DEBUG, extractVars>>

\* Lines 611-624: the reader fetch settles.
ReaderSettles(r, outcome) ==
    /\ reqs[r].pc = "reader"
    /\ reqs' = [reqs EXCEPT ![r] =
           IF outcome.ok /\ outcome.body # 0 THEN StaticExtraction(@, outcome.body)
           ELSE [@ EXCEPT !.pc = "done",
                          !.res = ErrorResponse(502, "Seite konnte nicht geladen werden")]]
    /\ UNCHANGED <<USE_BROWSER, browserSingleton, launches>>
    /\ UNCHANGED <<parseVars, chooseVars, DEBUG, extractVars>>

\* A variant of RenderFailed in which a failed render fails the request.
RenderFailed_InternalError(q) ==
    [q EXCEPT !.pc = "done",
              !.res = ErrorResponse(500, "Interner Fehler beim Preisabruf")]

\* Lines 642-672: the catch of the render keeps out, meta and used of the
\* static extraction, and the response follows.
RenderFailed(q) == Respond(q)

\* Lines 501-502: the import settles and chromium.launch is called; a
\* rejection reaches the catch of line 642.
ImportSettles(r, ok) ==
    /\ reqs[r].pc = "import"
    /\ reqs' = [reqs EXCEPT ![r] =
           IF ok THEN [@ EXCEPT !.pc = "launch", !.launch = launches + 1]
           ELSE RenderFailed(@)]
    /\ launches' = IF ok THEN launches + 1 ELSE launches
    /\ UNCHANGED <<USE_BROWSER, browserSingleton>>
    /\ UNCHANGED <<parseVars, chooseVars, DEBUG, extractVars>>

\* A variant of LaunchSettles that stores the pending launch whether it
\* succeeds or not.
LaunchSettles_StoresFailure(r, ok) ==
    /\ reqs[r].pc = "launch"
    /\ browserSingleton' = reqs[r].launch
    /\ reqs' = [reqs EXCEPT ![r] =
           IF ok THEN [@ EXCEPT !.pc = "context", !.browser = reqs[r].launch]
           ELSE RenderFailed(@)]
    /\ UNCHANGED <<USE_BROWSER, launches>>
    /\ UNCHANGED <<parseVars, chooseVars, DEBUG, extractVars>>

\* Lines 502-506 and 510: the launch settles with its browser instance (the
\* instances are numbered by their launch), which is stored and returned; a
\* rejection reaches the catch of line 642.
LaunchSettles(r, ok) ==
    /\ reqs[r].pc = "launch"
    /\ browserSingleton' = IF ok THEN reqs[r].launch ELSE browserSingleton
    /\ reqs' = [reqs EXCEPT ![r] =
           IF ok THEN [@ EXCEPT !.pc = "context", !.browser = reqs[r].launch]
           ELSE RenderFailed(@)]
    /\ UNCHANGED <<USE_BROWSER, launches>>
    /\ UNCHANGED <<parseVars, chooseVars, DEBUG, extractVars>>

\* Line 640: out after a render, given the static out and the extraction of
\* the rendered document, with the static result merged in.
AfterRender_Merged(out, out2) ==
    [out2 EXCEPT !.price = Or(out2.price, out.price),
                 !.image = Or(out2.image, out.image),
                 !.priceCands = out.priceCands \o out2.priceCands]

\* Line 640: out after a render, given the static out and the extraction of
\* the rendered document.
AfterRender(out, out2) == out2

\* Lines 511-517: browser.newContext settles and context.newPage is
\* called; a rejection reaches the catch of line 642.
ContextSettles(r, ok) ==
    /\ reqs[r].pc = "context"
    /\ reqs' = [reqs EXCEPT ![r] =
           IF ok THEN [@ EXCEPT !.pc = "newPage", !.context = "open"]
           ELSE RenderFailed(@)]
    /\ UNCHANGED <<USE_BROWSER, browserSingleton, launches>>
    /\ UNCHANGED <<parseVars, chooseVars, DEBUG, extractVars>>

\* Lines 517-519: context.newPage settles and page.goto is called.  Line
\* 517 is before the try of line 518, so a rejection reaches the catch of
\* line 642 without the finally of lines 527-529.
NewPageSettles(r, ok) ==
    /\ reqs[r].pc = "newPage"
    /\ reqs' = [reqs EXCEPT ![r] =
           IF ok THEN [@ EXCEPT !.pc = "page"] ELSE RenderFailed(@)]
    /\ UNCHANGED <<USE_BROWSER, browserSingleton, launches>>
    /\ UNCHANGED <<parseVars, chooseVars, DEBUG, extractVars>>

\* Lines 519-529 and 635-646: the page of the render (navigation, consent
\* clicks, content) settles and the finally closes the context: the
\* rendered document is extracted, or the catch of line 642 keeps the
\* static result.
PageSettles(r, outcome) ==
    /\ reqs[r].pc = "page"
    /\ reqs' = [reqs EXCEPT ![r] =
           IF outcome.ok
           THEN Respond([@ EXCEPT !.html2 = outcome.body,
                                  !.context = "closed",
                                  !.viaBrowser = TRUE,
                                  !.used = "browser",
                                  !.meta = MetaOf[outcome.body],
                                  !.out = AfterRender(@, Extracted[outcome.body,
                                                                   reqs[r].targetUrl, DEBUG])])
           ELSE RenderFailed([@ EXCEPT !.context = "closed"])]
    /\ UNCHANGED <<USE_BROWSER, browserSingleton, launches>>
    /\ UNCHANGED <<parseVars, chooseVars, DEBUG, extractVars>>

Init ==
    /\ DEBUG \in BOOLEAN
    /\ USE_BROWSER \in BOOLEAN
    /\ browserSingleton = 0
    /\ launches = 0
    /\ reqs = [r \in Requests |-> NoRequest]
    /\ ParseIdle
    /\ ChooseIdle
    /\ ExtractIdle

Next ==
    \E r \in Requests :
        \/ \E url \in QueryUrls, render \in BOOLEAN : Receive(r, url, render)
        \/ DirectRetries(r)
        \/ \E outcome \in FetchOutcomes : DirectSettles(r, outcome)
        \/ \E outcome \in FetchOutcomes : AmazonSettles(r, outcome)
        \/ \E outcome \in FetchOutcomes : ReaderSettles(r, outcome)
        \/ \E ok \in BOOLEAN : ImportSettles(r, ok)
        \/ \E ok \in BOOLEAN : LaunchSettles(r, ok)
        \/ \E ok \in BOOLEAN : ContextSettles(r, ok)
        \/ \E ok \in BOOLEAN : NewPageSettles(r, ok)
        \/ \E outcome \in RenderOutcomes : PageSettles(r, outcome)

Spec == Init /\ [][Next]_vars

(***************************************************************************)
(* SpecAbort: one /api/price request whose caller may close the connection  *)
(* while a fetch or a render of the request is pending                      *)
(***************************************************************************)
\* The positions at which a request awaits a fetch or a step of the render.
InFlight == {"direct", "amazon", "reader", "import", "launch", "context", "newPage", "page"}

\* The caller closes the connection.  The handler of lines 535-678
\* registers no listener for it and passes no signal to got or to the page.
Abort(r) ==
    /\ reqs[r].pc \in InFlight
    /\ ~reqs[r].aborted
    /\ reqs' = [reqs EXCEPT ![r].aborted = TRUE]
    /\ UNCHANGED <<USE_BROWSER, browserSingleton, launches>>
    /\ UNCHANGED <<parseVars, chooseVars, DEBUG, extractVars>>

NextAbort ==
    \E r \in {1} :
        \/ \E url \in QueryUrls, render \in BOOLEAN : Receive(r, url, render)
        \/ DirectRetries(r)
        \/ \E outcome \in FetchOutcomes : DirectSettles(r, outcome)
        \/ \E outcome \in FetchOutcomes : AmazonSettles(r, outcome)
        \/ \E outcome \in FetchOutcomes : ReaderSettles(r, outcome)
        \/ \E ok \in BOOLEAN : ImportSettles(r, ok)
        \/ \E ok \in BOOLEAN : LaunchSettles(r, ok)
        \/ \E ok \in BOOLEAN : ContextSettles(r, ok)
        \/ \E ok \in BOOLEAN : NewPageSettles(r, ok)
        \/ \E outcome \in RenderOutcomes : PageSettles(r, outcome)
        \/ Abort(r)

SpecAbort == Init /\ [][NextAbort]_vars

(***************************************************************************)
(* Properties of parsePriceNumber                                           *)
(***************************************************************************)
\* What parsePriceNumber returns for a text whose decimal reading is n.
Accepted(n) == IF IsFinite(n) /\ IsPositive(n) THEN n ELSE Null

\* The four ways of writing the amount with integer digits a bbb and
\* decimals c: either separator convention, with or without the thousands
\* separator.
WrittenForms(a, b, c) ==
    { a \o <<".">> \o b \o <<",">> \o c,
      a \o <<",">> \o b \o <<".">> \o c,
      a \o b \o <<",">> \o c,
      a \o b \o <<".">> \o c }

Text1299 == Chars("1.299,00")
Num1299 == MkNum(FALSE, Chars("1299"), <<>>)

\* C9: one amount written in either separator convention, with or without a
\* thousands separator, normalizes to the same value: for every leading
\* group a, three-digit group b and one or two decimals c, each of the texts
\* a.b,c  a,b.c  ab,c  ab.c  yields the amount ab.c (so "1.299,00",
\* "1,299.00", "1299,00" and "1299.00" all yield 1299.00).
C9_SameValueInEitherConvention ==
    (ppc = "done" /\ str.t = "str") =>
        \A a, b, c \in DigitGroups :
            (/\ a # <<>>
             /\ Len(b) = 3
             /\ Len(c) \in 1..2
             /\ str.s \in WrittenForms(a, b, c))
            => num = Accepted(MkNum(FALSE, a \o b, c))

\* C9 witness: "1.299,00" has been normalized to 1299.
C9_Witness ==
    ppc = "done" /\ str = Str(Text1299) /\ num = Num1299

HasBothSeparators(s) == Includes(s, ",") /\ Includes(s, ".")

\* The reading the claim describes: the separator kind that occurs last is
\* the decimal separator (its last occurrence becomes the decimal point) and
\* every occurrence of the other kind is removed.
LastSeparatorDecimal(cleaned) ==
    IF LastIndexOf(cleaned, ",") > LastIndexOf(cleaned, ".")
    THEN LET noDots == RemoveAll(cleaned, ".")
         IN  [noDots EXCEPT ![LastIndexOf(noDots, ",")] = "."]
    ELSE RemoveAll(cleaned, ",")

ClaimedValue(s) ==
    Accepted(parseFloat(LastSeparatorDecimal(Cleaned(ReplaceCommaDash(s)))))

\* C10 as stated: for every input with both a comma and a period the last
\* separator is the decimal separator and every occurrence of the other is
\* removed, whatever the number of digits between the separators.
C10_AsStated ==
    (ppc = "done" /\ str.t = "str" /\ HasBothSeparators(str.s))
    => num = ClaimedValue(str.s)

\* Every period of s is followed by exactly three digits and then by a
\* separator or the end of the text.
PeriodsGroupThreeDigits(s) ==
    \A i \in 1..Len(s) :
        s[i] = "." =>
            /\ i + 3 <= Len(s)
            /\ \A j \in (i + 1)..(i + 3) : s[j] \in Digits
            /\ (i + 3 < Len(s) => s[i + 4] \notin Digits)

CommaCount(s) == Cardinality({i \in 1..Len(s) : s[i] = ","})

\* C10 amended: for every input with both a comma and a period, if the
\* period occurs last every comma is removed; if the comma occurs last, it is
\* the decimal separator and every period is removed provided the comma
\* occurs once and every period is followed by exactly three digits.
C10_LastSeparatorDecimalWhenGrouped ==
    (ppc = "done" /\ str.t = "str" /\ HasBothSeparators(str.s))
    => LET cleaned == Cleaned(ReplaceCommaDash(str.s))
       IN  (\/ LastIndexOf(cleaned, ".") > LastIndexOf(cleaned, ",")
            \/ (CommaCount(cleaned) = 1 /\ PeriodsGroupThreeDigits(cleaned)))
           => num = ClaimedValue(str.s)

\* C10 witness: a comma-last text with a grouping period ("5.299,00") has
\* been normalized with the period removed.
C10_Witness ==
    /\ ppc = "done"
    /\ str = Str(Chars("5.299,00"))
    /\ num = MkNum(FALSE, Chars("5299"), <<>>)

CommasOnly(s) == Includes(s, ",") /\ ~Includes(s, ".")

\* The text after the first comma of s.
AfterComma(s) == SubSeq(s, IndexFrom(s, ",", 1) + 1, Len(s))

DigitCount(s) == Cardinality({i \in 1..Len(s) : IsDigit(s[i])})

\* The reading of a text with commas only: a single comma with at most
\* `few` following becomes the decimal point, otherwise every comma goes.
CommaReading(cleaned, few) ==
    IF CommaCount(cleaned) = 1 /\ few
    THEN ReplaceFirst(cleaned, ",", ".")
    ELSE RemoveAll(cleaned, ",")

\* C11 as stated: for every input with commas and no period, a single comma
\* followed by at most two digits is the decimal separator, and otherwise
\* every comma is removed.
C11_AsStated ==
    (ppc = "done" /\ str.t = "str" /\ CommasOnly(str.s))
    => num = Accepted(parseFloat(CommaReading(Cleaned(str.s),
                                              DigitCount(AfterComma(str.s)) <= 2)))

\* C11 amended: for every input with commas and no period, after the ",-"
\* shorthand is rewritten and the characters other than digits, separators
\* and hyphens are dropped, a single comma followed by at most two
\* characters (digits or hyphens) is the decimal separator, and otherwise
\* every comma is removed.
C11_CommaOnlyByFragmentLength ==
    (ppc = "done" /\ str.t = "str" /\ CommasOnly(str.s))
    => num = Accepted(parseFloat(
                 CommaReading(Cleaned(ReplaceCommaDash(str.s)),
                              Len(AfterComma(Cleaned(ReplaceCommaDash(str.s)))) <= 2)))

\* C11 witness: "1299,5" has been normalized to 1299.5.
C11_Witness ==
    /\ ppc = "done"
    /\ str = Str(Chars("1299,5"))
    /\ num = MkNum(FALSE, Chars("1299"), <<"5">>)

\* The texts "0", "", "abc" and "-5,00" and the number 0.
RejectedExamples ==
    {Str(<<"0">>), Str(<<>>), Str(Chars("abc")), Str(Chars("-5,00")),
     MkNum(FALSE, <<>>, <<>>)}

\* C12: the result is absent for absent and empty input, for a text without
\* a digit, for a text whose digits are all zeros, for a text whose first
\* kept character is a minus sign and for a number that is zero or negative;
\* a result that is not absent is a finite number greater than zero.
C12_AbsentOrFinitePositive ==
    ppc = "done" =>
        /\ num # Null => num.t = "num" /\ ~num.neg /\ ~(num.ip = <<>> /\ num.fp = <<>>)
        /\ str = Null => num = Null
        /\ str \in RejectedExamples => num = Null
        /\ str.t = "num" /\ (IsZero(str) \/ str.neg) => num = Null
        /\ str.t = "str" =>
               /\ DigitCount(str.s) = 0 => num = Null
               /\ (\A i \in 1..Len(str.s) : IsDigit(str.s[i]) => str.s[i] = "0")
                      => num = Null
               /\ Cleaned(str.s) # <<>> /\ Cleaned(str.s)[1] = "-" => num = Null

\* C12 witness: "-5,00" was read as -5 and gave absent.
C12_Witness ==
    /\ ppc = "done"
    /\ str = Str(Chars("-5,00"))
    /\ parseFloat(Normalized(Cleaned(str.s))) = MkNum(TRUE, <<"5">>, <<>>)
    /\ num = Null

\* The texts made of a whole amount of k digits, the shorthand ",-" and
\* text without a digit.
ShorthandAfter(s, k) ==
    /\ k >= 1
    /\ Len(s) >= k + 2
    /\ \A i \in 1..k : IsDigit(s[i])
    /\ \E i \in 1..k : s[i] # "0"
    /\ s[k + 1] = ","
    /\ s[k + 2] = "-"
    /\ \A i \in (k + 3)..Len(s) : ~IsDigit(s[i])

\* C13: a whole amount followed by the shorthand ",-" gives that amount,
\* whether the shorthand ends the text or text without digits follows it.
C13_ShorthandGivesWholeAmount ==
    (ppc = "done" /\ str.t = "str") =>
        \A k \in 1..Len(str.s) :
            ShorthandAfter(str.s, k) => num = MkNum(FALSE, SubSeq(str.s, 1, k), <<>>)

(***************************************************************************)
(* Properties of chooseBestPrice                                            *)
(***************************************************************************)
ValuesOf(list) == {list[i].value : i \in 1..Len(list)}
Occurrences(list, v) == Cardinality({i \in 1..Len(list) : list[i].value = v})

V5 == Dec(<<"5">>, <<>>)
V1799 == Dec(Chars("17"), Chars("99"))
V1999 == Dec(Chars("19"), Chars("99"))
V25 == Dec(Chars("25"), <<>>)
V30 == Dec(Chars("30"), <<>>)

\* C4: within the chosen partition the returned value is one that occurs
\* most often, and among the values that occur equally often it is the
\* numerically largest (25.00 and 30.00 once each, no tax context: 30.00).
C4_ModeThenLargest ==
    (cpc = "done" /\ candList # <<>>) =>
        LET partition == Pool(Scored(RangeFiltered(candList)))
        IN  /\ chosen \in ValuesOf(partition)
            /\ \A v \in ValuesOf(partition) :
                \/ Occurrences(partition, chosen) > Occurrences(partition, v)
                \/ /\ Occurrences(partition, chosen) = Occurrences(partition, v)
                   /\ NumCompare(chosen, v) >= 0

\* C4 witness: 25.00 and 30.00 once each without tax context gave 30.00.
C4_Witness ==
    /\ cpc = "done"
    /\ candList = <<Candidate(V25, CtxNone), Candidate(V30, CtxNone)>>
    /\ chosen = V30

\* C5: if a candidate of the range-filtered list has a non-negative tax
\* score, the returned value is carried by a non-negative-score candidate and
\* is a most frequent value counting the non-negative-score candidates only;
\* a value carried only by negative-score candidates is returned only when
\* every candidate of that list scores negative.
C5_NetPriceCandidatesDeprioritized ==
    (cpc = "done" /\ candList # <<>>) =>
        LET list == RangeFiltered(candList)
            nonNegative == SelectSeq(list, LAMBDA c : VatScore(c.context) >= 0)
        IN  /\ nonNegative # <<>> =>
                /\ chosen \in ValuesOf(nonNegative)
                /\ \A v \in ValuesOf(nonNegative) :
                      Occurrences(nonNegative, chosen) >= Occurrences(nonNegative, v)
            /\ chosen \notin ValuesOf(nonNegative) =>
                \A i \in 1..Len(list) : VatScore(list[i].context) < 0

\* C5 witness: 19.99 twice with "inkl. MwSt" and 17.99 once with "netto"
\* gave 19.99.
C5_Witness ==
    /\ cpc = "done"
    /\ candList = <<Candidate(V1999, CtxGross), Candidate(V1999, CtxGross),
                    Candidate(V1799, CtxNet)>>
    /\ chosen = V1999

WithinBand(v) ==
    NumCompare(v, NumOfNat(10)) >= 0 /\ NumCompare(v, NumOfNat(100000)) <= 0

\* C6: if a candidate has a value in [10, 100000], the returned value lies
\* in [10, 100000] and equals what the candidates inside the band alone
\* yield; a value outside the band is returned only when no candidate lies
\* inside it.
C6_PlausibilityBand ==
    cpc = "done" =>
        LET inside == SelectSeq(candList, LAMBDA c : WithinBand(c.value))
        IN  /\ inside # <<>> =>
                (WithinBand(chosen) /\ chosen = chooseBestPrice(inside))
            /\ (chosen # Null /\ ~WithinBand(chosen)) => inside = <<>>

\* C6 witness: 5.00 twice and 25.00 once gave 25.00.
C6_Witness ==
    /\ cpc = "done"
    /\ candList = <<Candidate(V5, CtxNone), Candidate(V5, CtxNone),
                    Candidate(V25, CtxNone)>>
    /\ chosen = V25

\* C7: the result is absent if and only if the candidate list is empty, and
\* for a non-empty list it is the value of one of the candidates.
C7_AbsentIffEmpty ==
    cpc = "done" =>
        /\ chosen = Null <=> candList = <<>>
        /\ candList # <<>> => chosen \in ValuesOf(candList)

\* C7 witness: the single candidate 17.99 was returned as 17.99.
C7_Witness ==
    /\ cpc = "done"
    /\ candList = <<Candidate(V1799, CtxNone)>>
    /\ chosen = V1799

\* The rearrangements of a list.
Permutations(list) ==
    {[i \in 1..Len(list) |-> list[f[i]]] :
        f \in {g \in [1..Len(list) -> 1..Len(list)] :
                  \A i, j \in 1..Len(list) : g[i] = g[j] => i = j}}

\* The rearrangement that stands for all rearrangements of a list: the same
\* one for any two lists with the same candidates.
Arranged(list) == CHOOSE l \in Permutations(list) : TRUE

\* C24: chooseBestPrice returns for a candidate list the value it returns
\* for the one arrangement that stands for all rearrangements of the list;
\* as this holds for every list, every two rearrangements of the same
\* candidates give the same value.
C24_OrderIndependent ==
    cpc = "done" => chosen = chooseBestPrice(Arranged(candList))

\* C24 witness: 17.99, 25.00 and 19.99 once each, the largest in the middle
\* and an array-index key after a decimal one, gave 25.00.
C24_Witness ==
    /\ cpc = "done"
    /\ candList = <<Candidate(V1799, CtxNone), Candidate(V25, CtxNone),
                    Candidate(V1999, CtxNone)>>
    /\ chosen = V25
    /\ EntryKeys(candList) = <<Chars("25"), Chars("17.99"), Chars("19.99")>>
    /\ Arranged(candList) # candList

(***************************************************************************)
(* Properties of universalExtract                                           *)
(***************************************************************************)
FinitePositive(c) == c.value.t = "num" /\ IsFinite(c.value) /\ IsPositive(c.value)

SourcesOf(priceCands) == {priceCands[i].source : i \in 1..Len(priceCands)}

\* C8: in every state of an extraction, after each block and in the value
\* returned, every price candidate of the list given to chooseBestPrice has
\* a finite value greater than 0, whether push, the walk over parsed JSON
\* or the regular expressions over a malformed script added it.
C8_CandidateValuesFinitePositive ==
    /\ exState # Null =>
           \A i \in 1..Len(exState.priceCands) : FinitePositive(exState.priceCands[i])
    /\ exOut # Null =>
           \A i \in 1..Len(exOut.priceCands) : FinitePositive(exOut.priceCands[i])

\* A returned extraction of a document holding a negative data-price, a
\* zero and a negative number in the parsed script and "0" and "-5" in the
\* malformed one, with candidates of all three origins.
C8_Witness ==
    /\ exStep = 0 /\ exOut # Null
    /\ exDoc.data["[data-price]"] # Null
    /\ {"microdata:price", "json:currentPrice", "jsonblob:regex", "regex:body"}
           \subseteq SourcesOf(exOut.priceCands)

(***************************************************************************)
(* Properties of the /api/price handler                                    *)
(***************************************************************************)

\* The requests that obtained a static document.
WithStatic == {r \in Requests : reqs[r].html # 0}

\* out1 of a request that obtained a static document.
Out1(r) == Extracted[reqs[r].html, reqs[r].targetUrl, DEBUG]

\* out2 of a request whose render succeeded.
Out2(r) == Extracted[reqs[r].html2, reqs[r].targetUrl, DEBUG]

RenderPermitted(r) == USE_BROWSER \/ reqs[r].forceRender

Rendering(r) == reqs[r].pc \in {"import", "launch", "context", "newPage", "page"}

\* C1: a request that obtained a static document has performed exactly one
\* render pass if rendering is permitted and out1 lacks a price or an image,
\* and none otherwise; a request without a static document has performed
\* none and is not rendering, so the render starts only after the static
\* extraction, and no request renders twice.
C1_RenderIffPermittedAndIncomplete ==
    \A r \in Requests :
        /\ reqs[r].renders <= 1
        /\ r \in WithStatic =>
               reqs[r].renders =
                   IF RenderPermitted(r)
                      /\ (Falsy(Out1(r).price) \/ Falsy(Out1(r).image))
                   THEN 1 ELSE 0
        /\ r \notin WithStatic => reqs[r].renders = 0
        /\ Rendering(r) \/ reqs[r].viaBrowser => r \in WithStatic /\ reqs[r].renders = 1

\* A request rendered on explicit demand only, for a static result with a
\* price and no image, while another one with a complete static result and
\* the same demand answered without a render.
C1_Witness ==
    /\ ~USE_BROWSER
    /\ \E r \in WithStatic :
           /\ reqs[r].pc = "done" /\ reqs[r].forceRender /\ reqs[r].renders = 1
           /\ ~Falsy(Out1(r).price) /\ Falsy(Out1(r).image)
    /\ \E r \in WithStatic :
           /\ reqs[r].pc = "done" /\ reqs[r].forceRender /\ reqs[r].renders = 0
           /\ ~Falsy(Out1(r).price) /\ ~Falsy(Out1(r).image)

\* C2: after a successful render the result of the request is out2, and the
\* response reports the price, the image, the strategies and the candidates
\* of out2 (the image falling back to the meta image of the rendered
\* document, the strategies followed by the source), nothing of out1.
C2_RenderedResultReplacesStatic ==
    \A r \in Requests :
        reqs[r].viaBrowser =>
            /\ reqs[r].out = Out2(r)
            /\ reqs[r].pc = "done"
            /\ reqs[r].res.price = IF Falsy(Out2(r).price) THEN Null ELSE Out2(r).price
            /\ reqs[r].res.status = IF Falsy(Out2(r).price) THEN 404 ELSE 200
            /\ reqs[r].res.image =
                   Or(Or(Out2(r).image, MetaOf[reqs[r].html2].image), Null)
            /\ DEBUG =>
                   /\ reqs[r].res.candidates = Arr(Out2(r).priceCands)
                   /\ reqs[r].res.strategies \in
                          {Arr(Out2(r).strategies),
                           Arr(Append(Out2(r).strategies, "source:browser"))}

\* A render succeeded for a request whose static pass had found a price that
\* the rendered pass did not find: the answer is 404 and lists no candidate
\* of the static pass.
C2_Witness ==
    /\ DEBUG
    /\ \E r \in Requests :
           /\ reqs[r].viaBrowser /\ reqs[r].pc = "done"
           /\ ~Falsy(Out1(r).price)
           /\ Falsy(Out2(r).price)
           /\ Out1(r).priceCands # <<>>
           /\ reqs[r].res.status = 404
           /\ reqs[r].res.candidates = Arr(<<>>)

\* C3: no two calls of chromium.launch are pending together, and the
\* requests that got a browser from getBrowser all got the same instance.
C3_SingleLaunch ==
    /\ Cardinality({r \in Requests : reqs[r].pc = "launch"}) <= 1
    /\ \A r1, r2 \in Requests :
           reqs[r1].browser # 0 /\ reqs[r2].browser # 0 =>
               reqs[r1].browser = reqs[r2].browser

(***************************************************************************)
(* Properties of the collectors                                            *)
(***************************************************************************)
\* What collector k contributes for the document when no other collector
\* has run.
Alone(k) == Collect(NoCandidates, exDoc, PageUrl, k).priceCands

RECURSIVE AloneUpTo(_)
AloneUpTo(k) == IF k = 0 THEN <<>> ELSE AloneUpTo(k - 1) \o Alone(k)

\* The value read from the first element of a data-* selector.
DataValue(el) ==
    Or(Or(Or(el.dataPrice, el.dataPriceAmount), el.dataProductPrice), el.text)

\* C16: after the first k collectors the candidate list is the contributions
\* each of them makes on its own, in order, so none is skipped or cut short
\* by what another one found; in the returned list offers.price and
\* offers.lowPrice both occur for the offer that carries both, and every
\* data-* and CSS selector whose first element holds a price (for CSS:
\* without a strike-price word) has its own candidate.
C16_CollectorsIndependent ==
    /\ exStep \in 1..(Len(Collectors) + 1) =>
           exState.priceCands = AloneUpTo(exStep - 1)
    /\ (exStep = 0 /\ exOut # Null) =>
           /\ exOut.priceCands = AloneUpTo(Len(Collectors))
           /\ (\E i \in 1..Len(exDoc.scripts) : exDoc.scripts[i] = GraphScript) =>
                  {"jsonld:offers.price", "jsonld:offers.lowPrice"}
                      \subseteq SourcesOf(exOut.priceCands)
           /\ \A i \in 1..Len(dataSelectors) :
                  (/\ exDoc.data[dataSelectors[i]] # Null
                   /\ parsePriceNumber(DataValue(exDoc.data[dataSelectors[i]])) # Null)
                  => ("data:" \o dataSelectors[i]) \in SourcesOf(exOut.priceCands)
           /\ \A i \in 1..Len(currentFirst) :
                  (/\ exDoc.css[currentFirst[i]] # Null
                   /\ ~HasStrikeWord(exDoc.css[currentFirst[i]].s)
                   /\ parsePriceNumber(exDoc.css[currentFirst[i]]) # Null)
                  => ("css:current:" \o currentFirst[i]) \in SourcesOf(exOut.priceCands)
           /\ \A i \in 1..Len(genericLater) :
                  (/\ exDoc.css[genericLater[i]] # Null
                   /\ ~HasStrikeWord(exDoc.css[genericLater[i]].s)
                   /\ parsePriceNumber(exDoc.css[genericLater[i]]) # Null)
                  => ("css:generic:" \o genericLater[i]) \in SourcesOf(exOut.priceCands)

\* A returned extraction in which the structured data, the microdata, a
\* data-* selector and the visible text each contributed, the offer with
\* both of its prices.
C16_Witness ==
    /\ exStep = 0
    /\ exOut # Null
    /\ {"jsonld:offers.price", "jsonld:offers.lowPrice", "microdata:price",
        "data:[data-testid*='price']", "regex:body"}
           \subseteq SourcesOf(exOut.priceCands)

\* The scripts of the document whose processing fails: the text is not
\* JSON, or a loop of the structured-data block throws at one of its nodes.
FailsToParse(script) ==
    \/ script.parsed = Malformed
    \/ /\ script.type = LdJson
       /\ \E n \in 1..Len(NodesOfList(ListOf(script.parsed), 1)) :
              NodesOfList(ListOf(script.parsed), 1)[n] = Throws

HasFailingScript == \E i \in 1..Len(exDoc.scripts) : FailsToParse(exDoc.scripts[i])

\* What the structured-data block and the script-blob block collect from
\* the scripts from i on when each script is the only one of the document.
RECURSIVE LdEach(_), BlobEach(_)
LdEach(i) ==
    IF i > Len(exDoc.scripts) THEN <<>>
    ELSE LdScript(NoCandidates, exDoc.scripts[i], PageUrl).priceCands \o LdEach(i + 1)

BlobEach(i) ==
    IF i > Len(exDoc.scripts) THEN <<>>
    ELSE BlobScript(exDoc.scripts[i]).priceCands \o BlobEach(i + 1)

IsPrefix(prefix, list) ==
    Len(prefix) <= Len(list) /\ SubSeq(list, 1, Len(prefix)) = prefix

\* The candidates that follow the first n of a list.
After(list, n) == SubSeq(list, n + 1, Len(list))

\* C22: for a document with a script that fails to parse, the extraction
\* runs every block and returns a result; the structured-data block and the
\* script-blob block collect from every script what that script gives on its
\* own, a script that is not JSON giving nothing to the structured-data
\* block, and every later block adds what it adds on its own.
C22_FailureSkipsOnlyItsScript ==
    HasFailingScript =>
        /\ exStep \in 1..(Len(Collectors) + 1) =>
               /\ exState.priceCands = AloneUpTo(exStep - 1)
               /\ exStep > 1 => IsPrefix(LdEach(1), exState.priceCands)
               /\ exStep = 7 =>
                      After(exState.priceCands, Len(AloneUpTo(5))) = BlobEach(1)
        /\ \A i \in 1..Len(exDoc.scripts) :
               exDoc.scripts[i].parsed = Malformed =>
                   LdScript(NoCandidates, exDoc.scripts[i], PageUrl) = NoCandidates
        /\ exStep = 0 =>
               /\ exOut # Null
               /\ exOut.priceCands = LdEach(1) \o After(AloneUpTo(5), Len(Alone(1)))
                                         \o BlobEach(1) \o Alone(7)
               /\ exOut.price = chooseBestPrice(exOut.priceCands)

\* A returned extraction of a document whose first structured-data script
\* throws at a null node after a price and whose second is not JSON: the
\* price before the throw, the price of the third script and the price the
\* regular expressions read from the second are all candidates.
C22_Witness ==
    /\ exStep = 0 /\ exOut # Null
    /\ exDoc.scripts = <<NullNodeScript, BrokenLdScript, ProductScript>>
    /\ \E i, j, k \in 1..Len(exOut.priceCands) :
           /\ i < j /\ j < k
           /\ exOut.priceCands[i].source = "jsonld:price"
           /\ exOut.priceCands[i].value = Dec(Chars("19"), Chars("99"))
           /\ exOut.priceCands[j].source = "jsonld:offers.price"
           /\ exOut.priceCands[j].value = Dec(Chars("129"), <<>>)
           /\ exOut.priceCands[k].source = "jsonblob:regex"
           /\ exOut.priceCands[k].value = Dec(Chars("89"), <<>>)

\* The whole amounts of at most four digits that the text writes with the
\* trailing-dash shorthand: the digits before a ",-" that no digit precedes.
DashAmounts(s) ==
    LET written == {x \in (1..Len(s)) \X (1..4) :
                       /\ x[1] = 1 \/ ~IsDigit(s[x[1] - 1])
                       /\ DigitsAt(s, x[1], x[2])
                       /\ x[1] + x[2] + 1 <= Len(s)
                       /\ s[x[1] + x[2]] = "," /\ s[x[1] + x[2] + 1] = "-"}
    IN  {SubSeq(s, x[1], x[1] + x[2] - 1) : x \in written}

BodyValues(priceCands) ==
    {priceCands[i].value : i \in {j \in 1..Len(priceCands) : priceCands[j].source = "regex:body"}}

\* C26: every whole amount that the body text writes with the trailing-dash
\* shorthand is the value of a regex:body candidate of the returned
\* extraction, whatever follows the dash.
C26_DashShorthandCollected ==
    (exStep = 0 /\ exOut # Null) =>
        \A amount \in DashAmounts(exDoc.body) :
            parseFloat(amount) \in BodyValues(exOut.priceCands)

\* C29: no script of the document gives the same price both to the
\* structured-data block and to the script-blob block, so a price field of
\* a JSON-LD node is one candidate of the returned list.
C29_StructuredPriceCountedOnce ==
    (exStep = 0 /\ exOut # Null) =>
        \A i \in 1..Len(exDoc.scripts) :
            ValuesOf(LdScript(NoCandidates, exDoc.scripts[i], PageUrl).priceCands)
                \cap ValuesOf(BlobScript(exDoc.scripts[i]).priceCands) = {}

(***************************************************************************)
(* Properties of the image of an extraction                                *)
(***************************************************************************)
StrategiesOf(st) == {st.strategies[i] : i \in 1..Len(st.strategies)}

\* The image the structured-data collector accepts for the document.
LdImage == Collect(NoCandidates, exDoc, PageUrl, 1).image

GraphImage == Str(Chars("https://cdn.example/g.png"))

\* C17: once the structured-data collector has accepted an image, the image
\* stays that one after every later collector and in the returned result,
\* and neither the image cascade nor the script-blob collector records an
\* image of its own; of two structured-data nodes with images the first
\* one's image is kept.
C17_StructuredImageKept ==
    /\ (exStep >= 2 /\ LdImage # Null) =>
           /\ exState.image = LdImage
           /\ StrategiesOf(exState) \cap {"image:auto", "jsonblob:image"} = {}
    /\ (exStep = 0 /\ exOut # Null /\ LdImage # Null) =>
           /\ exOut.image = LdImage
           /\ StrategiesOf(exOut) \cap {"image:auto", "jsonblob:image"} = {}
    /\ (exStep = 0 /\ exOut # Null /\ exDoc.scripts = <<GraphScript, ProductScript>>) =>
           exOut.image = GraphImage

\* A returned extraction of a document with two structured-data images, a
\* social image tag and script-blob images: the first structured-data
\* image is the result.
C17_Witness ==
    /\ exStep = 0
    /\ exOut # Null
    /\ exDoc.scripts = <<GraphScript, ProductScript>>
    /\ exDoc.meta["og:image"] # Null
    /\ findBestImage(exDoc, PageUrl) \notin {Null, GraphImage}
    /\ "jsonblob:image:candidate" \in StrategiesOf(exOut)
    /\ exOut.image = GraphImage

\* The first of the social/meta image tags that has a content.
MetaTagImage ==
    IF \E i \in 1..Len(metaImageNames) : ~Falsy(exDoc.meta[metaImageNames[i]])
    THEN exDoc.meta[metaImageNames[
             CHOOSE i \in 1..Len(metaImageNames) :
                 /\ ~Falsy(exDoc.meta[metaImageNames[i]])
                 /\ \A j \in 1..(i - 1) : Falsy(exDoc.meta[metaImageNames[j]])]]
    ELSE Null

\* The candidate of the first element of each product-image selector.
SelectorCandidate(i) ==
    getImgCandidateFromEl(First(exDoc.elements, imgSelectors[i]), PageUrl)

\* The img elements of the document that have a candidate and a declared
\* area above the minimum.
DeclaredArea(i) ==
    Dimension(exDoc.elements[i].attrs["width"]) * Dimension(exDoc.elements[i].attrs["height"])

LargeImgs ==
    {i \in 1..Len(exDoc.elements) :
        /\ "img" \in exDoc.elements[i].matches
        /\ getImgCandidateFromEl(exDoc.elements[i], PageUrl) # Null
        /\ DeclaredArea(i) > 40000}

\* The first item of a list that is not Null; Null if there is none.
FirstAccepted(list) ==
    IF \E k \in 1..Len(list) : list[k] # Null
    THEN list[CHOOSE k \in 1..Len(list) :
                  list[k] # Null /\ \A j \in 1..(k - 1) : list[j] = Null]
    ELSE Null

\* The img of the largest declared area among imgs, the first one on a tie.
LargestOf(imgs) ==
    IF imgs # {}
    THEN getImgCandidateFromEl(
             exDoc.elements[CHOOSE i \in imgs :
                                \A j \in imgs :
                                    \/ DeclaredArea(j) < DeclaredArea(i)
                                    \/ (DeclaredArea(j) = DeclaredArea(i) /\ i <= j)],
             PageUrl)
    ELSE Null

\* What each stage of the cascade accepts for the document, in the fixed
\* order; Null where it accepts nothing.
StageImages ==
    << absolutize(MetaTagImage, PageUrl),
       absolutize(pickFromSrcset(FindTruthy(exDoc.pictureSources, 1)), PageUrl),
       FirstAccepted([i \in 1..Len(imgSelectors) |-> SelectorCandidate(i)]),
       absolutize(exDoc.preload, PageUrl),
       LargestOf(LargeImgs) >>

\* The image of the earliest stage that accepts one.
EarliestStageImage == FirstAccepted(StageImages)

\* The cascade has set the image, or none when there is none to set.
CascadeSet(st, image) ==
    /\ image # Null => st.image = image
    /\ "image:auto" \in StrategiesOf(st) <=> image # Null

\* C18: where the structured data gave no image, the image the cascade
\* sets is the one accepted by the earliest of its stages (social/meta tags,
\* picture source-set, product-image selectors in list order, preload hint,
\* largest declared-area img), and it sets none only if no stage accepts.
C18_EarliestStageWins ==
    /\ (exStep >= 4 /\ LdImage = Null) => CascadeSet(exState, EarliestStageImage)
    /\ (exStep = 0 /\ exOut # Null /\ LdImage = Null) =>
           CascadeSet(exOut, EarliestStageImage)

\* A returned extraction whose image is the largest declared-area img: the
\* earlier stages accepted nothing, the first img is an icon, and of the imgs
\* above the minimal area the one of 700 by 400 is larger than 500 by 400.
C18_Witness ==
    /\ exStep = 0
    /\ exOut # Null
    /\ LdImage = Null
    /\ \A k \in 1..4 : StageImages[k] = Null
    /\ Cardinality(LargeImgs) = 2
    /\ exOut.image = Str(Chars("https://shop.example/img/wide.jpg"))

\* C14: the image of a returned extraction is absent or contains none of
\* the words sprite, icon, logo, placeholder and loading.
C14_ImageNeverDenyListed ==
    (exStep = 0 /\ exOut # Null) =>
        (exOut.image = Null \/ ~DenyListed(exOut.image.s))

(***************************************************************************)
(* Properties of the responses                                             *)
(***************************************************************************)
HttpUrl(v) ==
    /\ v.t = "str"
    /\ \/ StartsWith(toLowerCase(v.s), Chars("http://"))
       \/ StartsWith(toLowerCase(v.s), Chars("https://"))

\* C15: the image of every response is null or an absolute URL with the
\* scheme http or https.
C15_ResponseImageAbsolute ==
    \A r \in Requests :
        reqs[r].pc = "done" =>
            (reqs[r].res.image = Null \/ HttpUrl(reqs[r].res.image))

\* The requests with a well-formed URL that were answered.
Answered == {r \in Requests : reqs[r].pc = "done" /\ reqs[r].res.status # 400}

\* The final result of a request that obtained a document.
FinalOut(r) == IF reqs[r].viaBrowser THEN Out2(r) ELSE Out1(r)

\* C19: an answered request with a well-formed URL got 502 exactly when no
\* stage delivered a document, 404 exactly when a document was obtained and
\* the final result has no price, and otherwise 200 with a price that is a
\* finite number greater than 0.
C19_FailureKindsSeparated ==
    \A r \in Answered :
        /\ reqs[r].res.status \in {200, 404, 502}
        /\ reqs[r].res.status = 502 <=> reqs[r].html = 0
        /\ reqs[r].res.status = 404 <=>
               (reqs[r].html # 0 /\ Falsy(FinalOut(r).price))
        /\ reqs[r].res.status = 200 =>
               /\ reqs[r].res.price.t = "num"
               /\ ~reqs[r].res.price.neg
               /\ reqs[r].res.price.ip \o reqs[r].res.price.fp # <<>>
               /\ reqs[r].res.price = FinalOut(r).price

\* One request got 502 after every fetch failed while another one, whose
\* page was loaded but holds no price, got 404.
C19_Witness ==
    \E r1, r2 \in Answered :
        /\ reqs[r1].res.status = 502 /\ reqs[r1].html = 0 /\ reqs[r1].used = "reader"
        /\ reqs[r2].res.status = 404 /\ reqs[r2].html # 0
        /\ reqs[r2].res.error = "Kein Preis gefunden"

\* C20: the answer 502 is sent only after the direct fetch and the reader
\* proxy have failed and, for a request that is permitted to render, after
\* a headless render was attempted as well.
C20_LoadFailureAfterEveryStage ==
    \A r \in Answered :
        reqs[r].res.status = 502 =>
            /\ reqs[r].html = 0
            /\ reqs[r].used = "reader"
            /\ RenderPermitted(r) => reqs[r].renders > 0

\* The requests whose render was attempted and failed.
RenderFailures ==
    {r \in Requests : reqs[r].pc = "done" /\ reqs[r].renders = 1 /\ ~reqs[r].viaBrowser}

\* C21: a request whose render failed is answered with 200 or 404, never
\* with an internal error; its final result and metadata are those of the
\* static document, and status, price and image of the response are decided
\* from them.
C21_RenderFailureKeepsStatic ==
    \A r \in RenderFailures :
        /\ reqs[r].out = Out1(r)
        /\ reqs[r].meta = MetaOf[reqs[r].html]
        /\ reqs[r].used \in {"direct", "reader"}
        /\ reqs[r].html2 = 0
        /\ reqs[r].res.status = IF Falsy(Out1(r).price) THEN 404 ELSE 200
        /\ reqs[r].res.price = IF Falsy(Out1(r).price) THEN Null ELSE Out1(r).price
        /\ reqs[r].res.image = Or(Or(Out1(r).image, MetaOf[reqs[r].html].image), Null)
        /\ reqs[r].res.title = MetaOf[reqs[r].html].title

\* A request with a static price but no image whose navigation failed was
\* answered with the static price, and a request whose browser launch
\* failed was answered with 404.
C21_Witness ==
    \E r1, r2 \in RenderFailures :
        /\ reqs[r1].context = "closed" /\ reqs[r1].res.status = 200
        /\ reqs[r1].res.price = Out1(r1).price
        /\ reqs[r2].launch # 0 /\ reqs[r2].browser = 0 /\ reqs[r2].res.status = 404

\* C28: the browser context of a request is open only while its call of
\* renderWithBrowser is pending; once the call has returned or thrown and
\* the request is answered, the context is closed.
C28_ContextClosedOnEveryPath ==
    \A r \in Requests :
        reqs[r].context = "open" => reqs[r].pc \in {"newPage", "page"}

\* The launches that succeeded: the request that called chromium.launch got
\* the instance.
Launched == {reqs[r].launch : r \in {q \in Requests : reqs[q].launch # 0
                                                        /\ reqs[q].browser = reqs[q].launch}}

\* The requests whose import or launch failed.
LaunchFailures ==
    {r \in Requests : reqs[r].pc = "done" /\ reqs[r].renders = 1 /\ reqs[r].browser = 0}

\* C30: browserSingleton is unset or an instance of a launch that succeeded,
\* and so is the browser of every request; a request whose import or launch
\* failed is answered from its static result; and a request that called
\* renderWithBrowser while browserSingleton was unset has imported and
\* launched again, whatever failed before.
C30_FailedLaunchNotStored ==
    /\ browserSingleton # 0 => browserSingleton \in Launched
    /\ \A r \in Requests :
           /\ reqs[r].browser # 0 => reqs[r].browser \in Launched
           /\ reqs[r].pc \in {"context", "newPage", "page"} \/ reqs[r].viaBrowser =>
                  reqs[r].browser # 0
           /\ (reqs[r].renders = 1 /\ reqs[r].launch = 0 /\ reqs[r].browser = 0) =>
                  \/ reqs[r].pc = "import"
                  \/ r \in LaunchFailures
    /\ \A r \in LaunchFailures :
           /\ reqs[r].out = Out1(r)
           /\ reqs[r].res.status = IF Falsy(Out1(r).price) THEN 404 ELSE 200
    /\ (browserSingleton = 0 /\ launches > 0) =>
           \A r \in Requests : reqs[r].launch # 0 =>
               reqs[r].pc = "launch" \/ r \in LaunchFailures

\* The launch of the first request failed and left browserSingleton unset;
\* the second request launched again, got its browser and rendered.
C30_Witness ==
    \E r1, r2 \in Requests :
        /\ r1 \in LaunchFailures /\ reqs[r1].launch = 1
        /\ reqs[r2].launch = 2 /\ reqs[r2].browser = 2 /\ browserSingleton = 2
        /\ reqs[r2].pc = "done" /\ reqs[r2].viaBrowser

\* C25: the target URL is requested directly at most twice per request:
\* when the retry for an Amazon address is sent, the first request and the
\* retries got made for it count one request at most next to it.
C25_AtMostTwoDirectRequests ==
    [][\A r \in Requests :
          (reqs[r].pc = "direct" /\ reqs'[r].pc = "amazon") =>
              (1 + reqs[r].retryCount) + 1 <= 2]_vars

\* C27: once the caller has aborted a request, no further stage of the
\* request is started: no fetch, no step of a render, and no extraction of a
\* rendered document.
C27_NoStageAfterAbort ==
    [][\A r \in Requests :
          reqs[r].aborted =>
              /\ reqs'[r].pc \in {reqs[r].pc, "done"}
              /\ reqs'[r].renders = reqs[r].renders
              /\ reqs'[r].viaBrowser = reqs[r].viaBrowser]_vars

(***************************************************************************)
(* Properties of repeated extractions                                       *)
(***************************************************************************)
\* C23: a call of universalExtract returns what every earlier call of the
\* process returned for the same document: the same price, image,
\* strategies and candidate list, whatever was extracted in between.
C23_RepeatedExtractionIdentical ==
    (exStep = 0 /\ exOut # Null) =>
        \A i \in 1..Len(exCalls) :
            exCalls[i].doc = exDoc => exCalls[i].out = exOut

\* The third call returned, on the document of the first call and after a
\* call on another document, with candidates and a price.
C23_Witness ==
    /\ exStep = 0 /\ exOut # Null
    /\ Len(exCalls) = 2
    /\ exCalls[1].doc = exDoc /\ exCalls[2].doc # exDoc
    /\ exCalls[1].out = exOut /\ exCalls[2].out # exOut
    /\ Len(exOut.priceCands) > 1 /\ exOut.price # Null

====
